---------------------------- MODULE Spec2Model ----------------------------
(***************************************************************************)
(* A model of girder_worker's streaming I/O engine:                        *)
(*   - the container stdio demultiplexer                                   *)
(*       (plugins/docker/demultiplexer_adapter.py),                        *)
(*   - the multiplexing loop and the stream connectors it drives           *)
(*       (core/utils.py select_loop, plugins/docker/tasks/io.py),          *)
(*   - the container run around the loop                                   *)
(*       (docker/tasks/__init__.py _run_select_loop),                      *)
(*   - the temporary volume lifecycle of DockerTask.__call__               *)
(*       (docker/tasks/__init__.py, docker/transforms/__init__.py),        *)
(*   - the preparation phase of the executor                               *)
(*       (plugins/docker/executor.py),                                     *)
(*   - the hand-over of the pipe adapters to the loop                      *)
(*       (plugins/docker/tasks/__init__.py _docker_run),                   *)
(*   - the end of a run: socket closing and container removal              *)
(*       (docker/tasks/__init__.py _docker_run, _run_select_loop),         *)
(*   - the progress pipe adapter (core/utils.py JobProgressAdapter).       *)
(* Each part has its own specification over its own group of variables;    *)
(* the variables of the other parts stay at their initial values.          *)
(***************************************************************************)
EXTENDS Integers, Sequences, FiniteSets, TLC

VARIABLES
    \* ---- demultiplexer ----
    frames,      \* the frames the container sent: <<[type, payload], ...>>
    fed,         \* bytes of the encoded stream handed to write() so far
    lastFed,     \* value of fed before the latest write() call
    dm,          \* the DemultiplexerAdapterPushAdapter object's fields
    captured,    \* bytes the downstream adapter has received, in order
    lastCaptured, \* value of captured before the latest write() call
    lastWrites,  \* the downstream write calls of the latest write() call:
                 \* <<data offset, length>>, in order
    \* ---- multiplexing loop and the container run around it ----
    pc,          \* position in select_loop / _run_select_loop
    passed,      \* the connectors handed to select_loop
    readers,     \* select_loop's `readers` list
    writers,     \* select_loop's `writers` list
    closes,      \* per connector: how many times close() was called on it
    exit,        \* `exit`: the exit predicate's value in the current pass
    sawCancel,   \* whether that evaluation read task.canceled as true
    readable,    \* `readable` as returned by select in the current pass
    writable,    \* `writable` as returned by select in the current pass
    err,         \* the exception in flight ("none" when there is none)
    stepErr,     \* a connector's read or write step has raised
    nEval,       \* exit predicate evaluations so far
    nPoll,       \* select calls that returned so far
    nStep,       \* step phases completed so far
    cancelEvals, \* exit predicate evaluations that read task.canceled as true
    canceled,    \* task.canceled
    dstatus,     \* the container's state at the docker daemon
    cstatus,     \* container.status, as cached by the last reload()
    tries,       \* `tries` of the stop retry loop
    polls,       \* reload() calls made by the stop retry loop
    stopCalls,   \* container.stop() calls
    logged,      \* 'Unable to stop container' was logged
    \* ---- DockerTask.__call__ and its temporary volumes ----
    tpc,         \* position in DockerTask.__call__
    vols,        \* the `volumes` keyword: [isList, items (volume kinds)]
    vtrans,      \* per item of the list: its _transformed flag
    defTransformed, \* _transformed of the per-run default volume
    vol,         \* per volume object (0: the default): paths and history
    dirs,        \* host directories that exist
    created,     \* host directories this run created
    chmodded,    \* host paths handed to chmod_writable
    bodyResult,  \* how the task body ended
    \* ---- executor.run, preparation ----
    epc,         \* position in executor.run
    eargs,       \* task['container_args']
    newArgs,     \* the result of _expand_args
    onDisk,      \* the output paths that exist after the container run
    scriptData,  \* the pairs <<name, outputs[name]['script_data']>> set by run()
    collectErr,  \* what the loop over the outputs raised
    tin,         \* task_inputs with their input bindings
    tout,        \* task_outputs with their output bindings
    progress,    \* progress_pipe and job manager both set
    fifos,       \* FIFOs created on disk by this run
    fds,         \* descriptors opened by this run
    ipipes,      \* the input pipe map of _setup_pipes
    opipes,      \* the output pipe map of _setup_pipes
    started,     \* a container was started
    stdio,       \* the `_stdin`, `_stdout`, `_stderr` ids: [stdin, stdout, stderr]
    memSrc,      \* the id whose binding the memory fetch adapter was given
    \* ---- one stream connector and its two ends ----
    conn,        \* [kind, input, output]: connector class and endpoint kinds
    ends,        \* [input, output]: "unopened", "open" or "closed"
    clog,        \* the calls made on the two ends, in order
    clast,       \* the last operation called on the connector
    cstream,     \* the bytes the input side will yield
    cpos,        \* how many of them have been read
    cdelivered,  \* the bytes written to the output side
    cfileno,     \* what the latest fileno() call on the connector gave
    ctouched,    \* <<op, side, descriptor>>: the descriptors operated on
    \* ---- two runs in one worker process ----
    sobj,        \* per run: the TemporaryVolume object its bindings hold
    sinst,       \* per TemporaryVolume object: the run whose default volume
                 \* its _instance is (0: None)
    spc,         \* per run: [phase, left] of its binding transforms
    syield,      \* per run: the runs in whose volume its paths lay
    \* ---- JobProgressAdapter ----
    jstream,     \* the bytes the container writes to the progress pipe
    jfed,        \* how many of them write() calls have delivered
    jbuf,        \* self._buf
    jcalls,      \* the updateProgress calls made, in order
    jraised,     \* a write() call raised
    jclosed,     \* close() was called on the adapter
    \* ---- AccumulateDictAdapter ----
    adict0,      \* the dictionary as passed to the constructor
    adict,       \* the dictionary now
    achunks,     \* the chunks written, in order
    \* ---- the host's standard streams behind WritePipeAdapter ----
    hpc,         \* the run: "idle", "running", "closed", "closeRaised"
    hstream,     \* sys.stdout and sys.stderr: [open, written]
    hclosed,     \* the streams whose adapter has had close() called
    hfailed,     \* a write to a host stream raised
    \* ---- _docker_run up to the start of the container ----
    kpc,         \* "idle", "opening", "started", "failed"
    kstreams,    \* the stream connectors of the run: [side, fifo, fd]
    knext,       \* how many of them the loop over read_streams has passed
    kstarted,    \* _run_container was called
    kcalls,      \* per stream connector: os.open calls of its named pipe
    klast,       \* per stream connector: how its latest open() went
    kpasses,     \* passes of the loop that have called open() on the writers
    \* ---- executor.run's call of _docker_run (plugins/docker/tasks) ----
    xpc,         \* "idle", "call", "container", "attached", "over", "raised"
    xipipes,     \* the input pipe map executor.run built
    xopipes,     \* the output pipe map executor.run built
    xkwargs,     \* the keywords _run_container passes to containers.run
    xreaders,    \* read_stream_connectors: <<[input, output], ...>>
    xwriters,    \* write_stream_connectors
    xdriven,     \* the adapters and connectors select_loop has served
    xerr,        \* the exception that ended the call ("none" without)
    \* ---- _docker_run (docker/tasks) from the attach to the removal ----
    fpc,         \* "idle", "attach", "loop", "sockets", "decide", "over"
    fremove,     \* the remove_container argument
    fuser,       \* the inputs of the read connectors the caller passed
    fsock,       \* per standard stream: its attached socket was obtained
    freaders,    \* read_stream_connectors as wired: the input of each
    fcloses,     \* per socket descriptor: close calls on it so far
    fdstatus,    \* the container's state at the docker daemon
    fstatus,     \* container.status as the reload of the finally clause left it
    freload,     \* that reload: "no" (not called), "ok", "raised"
    fremoved,    \* container.remove() calls
    ferr         \* the exception in flight ("none" without)

demuxVars == <<frames, fed, lastFed, dm, captured, lastCaptured, lastWrites>>

loopVars == <<pc, passed, readers, writers, closes, exit, sawCancel, readable,
              writable, err, stepErr, nEval, nPoll, nStep, cancelEvals>>

runVars == <<canceled, dstatus, cstatus, tries, polls, stopCalls, logged>>

taskVars == <<tpc, vols, vtrans, defTransformed, vol, dirs, created,
              chmodded, bodyResult>>

execVars == <<epc, eargs, newArgs, tin, tout, progress, fifos, fds, ipipes,
              opipes, started, stdio, memSrc, onDisk, scriptData, collectErr>>

connVars == <<conn, ends, clog, clast, cstream, cpos, cdelivered, cfileno,
              ctouched>>

sharedVars == <<sobj, sinst, spc, syield>>

progressVars == <<jstream, jfed, jbuf, jcalls, jraised, jclosed>>

accumVars == <<adict0, adict, achunks>>

hostVars == <<hpc, hstream, hclosed, hfailed>>

startVars == <<kpc, kstreams, knext, kstarted, kcalls, klast, kpasses>>

handVars == <<xpc, xipipes, xopipes, xkwargs, xreaders, xwriters, xdriven, xerr>>

endVars == <<fpc, fremove, fuser, fsock, freaders, fcloses, fdstatus, fstatus,
             freload, fremoved, ferr>>

vars == <<demuxVars, loopVars, runVars, taskVars, execVars, connVars,
          sharedVars, progressVars, accumVars,
          hostVars,
          startVars,
          handVars,
          endVars>>

Min(a, b) == IF a < b THEN a ELSE b

(***************************************************************************)
(* Python's None, for integer-valued fields that may hold it.  Python's    *)
(* truth test (`if x`) on such a field is Truthy.                          *)
(***************************************************************************)
None == -1

Truthy(x) == x # None /\ x # 0

\* ======================================================================
\* Demultiplexer
\* ======================================================================

\* Bound: how many frames the container sends in one run of the model.
MaxFrames == 2

\* The stream-type tags of the wire format (stdout = 1, stderr = 2).
StreamTypes == {1, 2}

\* The payloads the model draws from: empty, one byte, two bytes.
Payloads == {<<>>, <<65>>, <<66, 67>>}

Frame == [type : StreamTypes, payload : Payloads]

RECURSIVE SeqsUpTo(_, _)
SeqsUpTo(S, n) ==
    IF n = 0 THEN {<<>>}
    ELSE LET shorter == SeqsUpTo(S, n - 1)
         IN  shorter \cup {Append(s, x) : s \in {t \in shorter : Len(t) = n - 1}, x \in S}

\* struct.pack('>L', n): four bytes, most significant first.
BE32(n) ==
    << (n \div 16777216) % 256, (n \div 65536) % 256, (n \div 256) % 256, n % 256 >>

\* One frame on the wire: [type:1][pad:3][length:4 big-endian] + payload.
EncodeFrame(f) == <<f.type, 0, 0, 0>> \o BE32(Len(f.payload)) \o f.payload

RECURSIVE EncodeFrames(_)
EncodeFrames(fs) ==
    IF fs = <<>> THEN <<>> ELSE EncodeFrame(Head(fs)) \o EncodeFrames(Tail(fs))

\* A mutant of Unpack: the length read as little-endian.
UnpackLittleEndian(h) ==
    ((h[8] * 256 + h[7]) * 256 + h[6]) * 256 + h[5]

\* struct.unpack('>BxxxL', header): the payload size, bytes 4..7 big-endian.
Unpack(h) ==
    ((h[5] * 256 + h[6]) * 256 + h[7]) * 256 + h[8]

\* The object after __init__; off and out are the locals of one write()
\* call (the data offset) and the downstream adapter's received bytes.
DemuxInit ==
    [ hbr |-> 0, pbr |-> 0, psize |-> None, header |-> <<>> ]

\* _read_header: returns the payload size once 8 header bytes are held,
\* and None (no return statement reached) before that.
ReadHeader(st, data) ==
    LET n == Min(8 - st.hbr, Len(data) - st.off)
        h == st.header \o SubSeq(data, st.off + 1, st.off + n)
    IN  [st EXCEPT !.header = h,
                   !.off = @ + n,
                   !.hbr = @ + n,
                   !.psize = IF st.hbr + n = 8 THEN Unpack(h) ELSE None]

\* _read_payload: forwards what this call holds of the payload.
ReadPayload(st, data) ==
    LET n == Min(st.psize - st.pbr, Len(data) - st.off)
    IN  [st EXCEPT !.out = @ \o SubSeq(data, st.off + 1, st.off + n),
                   !.calls = Append(@, <<st.off, n>>),
                   !.off = @ + n,
                   !.pbr = @ + n]

\* The payload test with a size of zero let through.
PayloadPendingOrEmpty(st) == st.psize # None /\ st.pbr <= st.psize

\* `if self._payload_size and self._payload_bytes_read < self._payload_size`.
PayloadPending(st) == Truthy(st.psize) /\ st.pbr < st.psize

\* One iteration with the header buffer not emptied at the end of a frame.
WriteIterKeepsHeader(st, data) ==
    LET s1 == IF st.hbr < 8 THEN ReadHeader(st, data) ELSE st
        s2 == IF PayloadPending(s1)
              THEN ReadPayload(s1, data) ELSE s1
    IN  IF s2.psize = s2.pbr
        THEN [s2 EXCEPT !.hbr = 0, !.pbr = 0, !.psize = 0]
        ELSE s2

\* One iteration of the while loop of write().
WriteIter(st, data) ==
    LET s1 == IF st.hbr < 8 THEN ReadHeader(st, data) ELSE st
        s2 == IF PayloadPending(s1)
              THEN ReadPayload(s1, data) ELSE s1
    IN  IF s2.psize = s2.pbr
        THEN [s2 EXCEPT !.header = <<>>, !.hbr = 0, !.pbr = 0, !.psize = 0]
        ELSE s2

RECURSIVE WriteLoop(_, _)
WriteLoop(st, data) ==
    IF Len(data) - st.off > 0 THEN WriteLoop(WriteIter(st, data), data) ELSE st

\* A mutant of DemuxWrite: `if` in place of `while`, one iteration per call.
DemuxWriteOnce(d, out, data) ==
    LET st == [ hbr |-> d.hbr, pbr |-> d.pbr, psize |-> d.psize,
                header |-> d.header, off |-> 0, out |-> out, calls |-> <<>> ]
    IN  IF Len(data) > 0 THEN WriteIter(st, data) ELSE st

\* DemultiplexerAdapterPushAdapter.write(data) on object d, whose
\* downstream adapter has received out so far.
DemuxWrite(d, out, data) ==
    LET st == [ hbr |-> d.hbr, pbr |-> d.pbr, psize |-> d.psize,
                header |-> d.header, off |-> 0, out |-> out, calls |-> <<>> ]
    IN  WriteLoop(st, data)

DemuxIdle ==
    /\ frames = <<>>
    /\ fed = 0
    /\ lastFed = 0
    /\ dm = DemuxInit
    /\ captured = <<>>
    /\ lastCaptured = <<>>
    /\ lastWrites = <<>>

DemuxStart ==
    /\ frames \in SeqsUpTo(Frame, MaxFrames)
    /\ fed = 0
    /\ lastFed = 0
    /\ dm = DemuxInit
    /\ captured = <<>>
    /\ lastCaptured = <<>>
    /\ lastWrites = <<>>

\* The caller hands the next n bytes of the stream to write().
Feed(n) ==
    LET stream == EncodeFrames(frames)
        st     == DemuxWrite(dm, captured, SubSeq(stream, fed + 1, fed + n))
    IN  /\ dm' = [ hbr |-> st.hbr, pbr |-> st.pbr, psize |-> st.psize,
                   header |-> st.header ]
        /\ captured' = st.out
        /\ lastCaptured' = captured
        /\ lastWrites' = st.calls
        /\ lastFed' = fed
        /\ fed' = fed + n
        /\ UNCHANGED frames

DemuxFeed == \E n \in 1..(Len(EncodeFrames(frames)) - fed) : Feed(n)

DemuxNext == DemuxFeed

\* ======================================================================
\* Multiplexing loop (select_loop) and the stream connectors
\* ======================================================================

\* Bounds: connectors handed to the loop, and passes the model follows.
MaxReaders == 2
MaxWriters == 1
MaxPasses == 3

Range(s) == {s[i] : i \in DOMAIN s}

\* list.remove(c)
Remove(s, c) == SelectSeq(s, LAMBDA x : x # c)

ReaderId(i) == <<"R", i>>
WriterId(i) == <<"W", i>>

\* What one transfer step of a connector meets: bytes to move, the end of
\* its input stream, or a failing read/write call.
Outcomes == {"data", "eof", "raise"}

\* ReadStreamConnector.read: buf = input.read(n); with bytes the result is
\* output.write(buf), which for a push adapter is None; without, the
\* connector closes itself and the result is 0.
ReadStep(o) ==
    [ raised |-> o = "raise",
      closed |-> o = "eof",
      ret    |-> IF o = "eof" THEN 0 ELSE None ]

\* WriteStreamConnector.write: the same with a descriptor writer as output,
\* whose write returns the (positive) count os.write reports.
WriteStep(o) ==
    [ raised |-> o = "raise",
      closed |-> o = "eof",
      ret    |-> IF o = "eof" THEN 0 ELSE 1 ]

\* A mutant of DropIfZero: the connector stays in the list.
DropNever(list, c, ret) == list

\* `if read == 0: readers.remove(ready)` (and the same for writers).
DropIfZero(list, c, ret) == IF ret = 0 THEN Remove(list, c) ELSE list

\* The ready connectors in the order select returns them.
ReadySeq(list, ready) == SelectSeq(list, LAMBDA x : x \in ready)

\* `for ready in readable: ...` / `for ready in writable: ...` over st =
\* [list, closes, err]; the first step that raises ends the iteration.
RECURSIVE StepAll(_, _, _, _)
StepAll(todo, st, oc, side) ==
    IF todo = <<>> \/ st.err # "none" THEN st
    ELSE LET c == Head(todo)
             r == IF side = "read" THEN ReadStep(oc[c]) ELSE WriteStep(oc[c])
         IN  IF r.raised
             THEN [st EXCEPT !.err = "step"]
             ELSE StepAll(Tail(todo),
                          [ list   |-> DropIfZero(st.list, c, r.ret),
                            closes |-> IF r.closed
                                       THEN [st.closes EXCEPT ![c] = @ + 1]
                                       ELSE st.closes,
                            err    |-> "none" ],
                          oc, side)

\* A mutant of ExitCondition: the cancellation flag is not consulted.
ExitIgnoresCancel(status, canc) == status \in {"exited", "dead"}

\* exit_condition of _run_select_loop, after its container.reload().
ExitCondition(status, canc) == status \in {"exited", "dead"} \/ canc

\* A mutant of PcAfterEval: `while not exit_condition()`, the loop is left
\* before the poll once the predicate holds.
PcAfterEvalBreaks(e) == IF e THEN "cleanup" ELSE "select"

\* After `exit = exit_condition()` the pass goes on to select, whatever
\* the value.
PcAfterEval(e) == "select"

\* A mutant of ShouldBreak: the loop is left only once every connector
\* has been taken off its list.
ShouldBreakWhenDrained(e, rs, rdy, ws, wdy) == (rs = <<>> /\ ws = <<>>) /\ e

\* A mutant of ShouldBreak: `or` in place of `and`.
ShouldBreakOr(e, rs, rdy, ws, wdy) ==
    ((rs = <<>> \/ rdy = {}) /\ (ws = <<>> \/ wdy = {})) \/ e

\* `empty = (not readers or not readable) and (not writers or not
\* writable)`; `if (empty and exit): break`.
ShouldBreak(e, rs, rdy, ws, wdy) ==
    ((rs = <<>> \/ rdy = {}) /\ (ws = <<>> \/ wdy = {})) /\ e

\* A mutant of CleanupTargets: the close loop placed after the while loop
\* instead of in a finally clause.
CleanupTargetsNoFinally(rs, ws, e) == IF e = "none" THEN rs \o ws ELSE <<>>

\* `finally: for stream in readers + writers: stream.close()`.
CleanupTargets(rs, ws, e) == rs \o ws

RECURSIVE CloseAll(_, _)
CloseAll(cl, list) ==
    IF list = <<>> THEN cl
    ELSE CloseAll([cl EXCEPT ![Head(list)] = @ + 1], Tail(list))

LoopPcs == {"eval", "select", "steps", "cleanup"}

LoopIdle ==
    /\ pc = "idle"
    /\ passed = {}
    /\ readers = <<>>
    /\ writers = <<>>
    /\ closes = << >>
    /\ exit = FALSE
    /\ sawCancel = FALSE
    /\ readable = {}
    /\ writable = {}
    /\ err = "none"
    /\ stepErr = FALSE
    /\ nEval = 0
    /\ nPoll = 0
    /\ nStep = 0
    /\ cancelEvals = 0

\* select_loop is entered with some read-side and write-side connectors.
LoopStart ==
    \E nr \in 0..MaxReaders, nw \in 0..MaxWriters :
        /\ pc = "eval"
        /\ readers = [i \in 1..nr |-> ReaderId(i)]
        /\ writers = [i \in 1..nw |-> WriterId(i)]
        /\ passed = {ReaderId(i) : i \in 1..nr} \cup {WriterId(i) : i \in 1..nw}
        /\ closes = [c \in {ReaderId(i) : i \in 1..nr} \cup {WriterId(i) : i \in 1..nw} |-> 0]
        /\ exit = FALSE
        /\ sawCancel = FALSE
        /\ readable = {}
        /\ writable = {}
        /\ err = "none"
        /\ stepErr = FALSE
        /\ nEval = 0
        /\ nPoll = 0
        /\ nStep = 0
        /\ cancelEvals = 0

\* `exit = exit_condition()`: reload the container, read its status and
\* the cancellation flag.
EvalExit ==
    /\ pc = "eval"
    /\ nEval < MaxPasses
    /\ cstatus' = dstatus
    /\ exit' = ExitCondition(dstatus, canceled)
    /\ sawCancel' = canceled
    /\ cancelEvals' = IF canceled THEN cancelEvals + 1 ELSE cancelEvals
    /\ nEval' = nEval + 1
    /\ pc' = PcAfterEval(exit')
    /\ UNCHANGED <<passed, readers, writers, closes, readable, writable, err,
                   stepErr, nPoll, nStep>>
    /\ UNCHANGED <<canceled, dstatus, tries, polls, stopCalls, logged>>

\* container.reload() inside exit_condition fails.
EvalRaises ==
    /\ pc = "eval"
    /\ nEval < MaxPasses
    /\ err' = "exit"
    /\ pc' = "cleanup"
    /\ UNCHANGED <<passed, readers, writers, closes, exit, sawCancel, readable,
                   writable, stepErr, nEval, nPoll, nStep, cancelEvals>>
    /\ UNCHANGED runVars

\* select.select(readers, writers, (), 0.1) returns the ready connectors.
Select ==
    /\ pc = "select"
    /\ \E rd \in SUBSET Range(readers), wr \in SUBSET Range(writers) :
           /\ readable' = rd
           /\ writable' = wr
    /\ nPoll' = nPoll + 1
    /\ pc' = "steps"
    /\ UNCHANGED <<passed, readers, writers, closes, exit, sawCancel, err,
                   stepErr, nEval, nStep, cancelEvals>>
    /\ UNCHANGED runVars

\* select.select raises (a bad descriptor, an interrupted call).
SelectRaises ==
    /\ pc = "select"
    /\ err' = "select"
    /\ pc' = "cleanup"
    /\ UNCHANGED <<passed, readers, writers, closes, exit, sawCancel, readable,
                   writable, stepErr, nEval, nPoll, nStep, cancelEvals>>
    /\ UNCHANGED runVars

\* The rest of the pass: one step of every readable connector, one step of
\* every writable connector, open() on every writer left, the break test.
Steps ==
    /\ pc = "steps"
    /\ \E oc \in [readable \cup writable -> Outcomes], openRaises \in BOOLEAN :
         LET r == StepAll(ReadySeq(readers, readable),
                          [list |-> readers, closes |-> closes, err |-> "none"],
                          oc, "read")
             w == StepAll(ReadySeq(writers, writable),
                          [list |-> writers, closes |-> r.closes, err |-> r.err],
                          oc, "write")
             e == IF w.err # "none" THEN w.err
                  ELSE IF openRaises /\ w.list # <<>> THEN "open"
                  ELSE "none"
         IN  /\ readers' = r.list
             /\ writers' = w.list
             /\ closes' = w.closes
             /\ err' = e
             /\ stepErr' = (w.err = "step")
             /\ nStep' = IF e = "none" THEN nStep + 1 ELSE nStep
             /\ pc' = IF e # "none" THEN "cleanup"
                      ELSE IF ShouldBreak(exit, r.list, readable, w.list, writable)
                           THEN "cleanup"
                           ELSE "eval"
    /\ UNCHANGED <<passed, exit, sawCancel, readable, writable, nEval, nPoll,
                   cancelEvals>>
    /\ UNCHANGED runVars

\* The finally clause of select_loop, then its return or the re-raise.
Cleanup ==
    /\ pc = "cleanup"
    /\ closes' = CloseAll(closes, CleanupTargets(readers, writers, err))
    /\ pc' = IF err = "none" THEN "returned" ELSE "raised"
    /\ UNCHANGED <<passed, readers, writers, exit, sawCancel, readable, writable,
                   err, stepErr, nEval, nPoll, nStep, cancelEvals>>
    /\ UNCHANGED runVars

\* The passes of the loop followed without a count of them: the exit
\* predicate is evaluated,
PassEval ==
    /\ pc = "eval"
    /\ cstatus' = dstatus
    /\ exit' = ExitCondition(dstatus, canceled)
    /\ sawCancel' = canceled
    /\ pc' = PcAfterEval(exit')
    /\ UNCHANGED <<passed, readers, writers, closes, readable, writable, err,
                   stepErr, nEval, nPoll, nStep, cancelEvals>>
    /\ UNCHANGED <<canceled, dstatus, tries, polls, stopCalls, logged>>

\* select returns the ready connectors,
PassSelect ==
    /\ pc = "select"
    /\ \E rd \in SUBSET Range(readers), wr \in SUBSET Range(writers) :
           /\ readable' = rd
           /\ writable' = wr
    /\ pc' = "steps"
    /\ UNCHANGED <<passed, readers, writers, closes, exit, sawCancel, err,
                   stepErr, nEval, nPoll, nStep, cancelEvals>>
    /\ UNCHANGED runVars

\* and the ready connectors are stepped, the writers left are opened and
\* the break test is made.
PassSteps ==
    /\ pc = "steps"
    /\ \E oc \in [readable \cup writable -> Outcomes], openRaises \in BOOLEAN :
         LET r == StepAll(ReadySeq(readers, readable),
                          [list |-> readers, closes |-> closes, err |-> "none"],
                          oc, "read")
             w == StepAll(ReadySeq(writers, writable),
                          [list |-> writers, closes |-> r.closes, err |-> r.err],
                          oc, "write")
             e == IF w.err # "none" THEN w.err
                  ELSE IF openRaises /\ w.list # <<>> THEN "open"
                  ELSE "none"
         IN  /\ readers' = r.list
             /\ writers' = w.list
             /\ closes' = w.closes
             /\ err' = e
             /\ stepErr' = (w.err = "step")
             /\ pc' = IF e # "none" THEN "cleanup"
                      ELSE IF ShouldBreak(exit, r.list, readable, w.list, writable)
                           THEN "cleanup"
                           ELSE "eval"
    /\ UNCHANGED <<passed, exit, sawCancel, readable, writable, nEval, nPoll,
                   nStep, cancelEvals>>
    /\ UNCHANGED runVars

\* ======================================================================
\* The container run around the loop (_run_select_loop)
\* ======================================================================

\* `tries = 10`
RetryBudget == 10

\* Bound: reload() calls of the stop retry loop the model follows.
MaxPolls == 12

RunIdle ==
    /\ canceled = FALSE
    /\ dstatus = "created"
    /\ cstatus = "created"
    /\ tries = 0
    /\ polls = 0
    /\ stopCalls = 0
    /\ logged = FALSE

\* The container was started detached; the task may already be canceled.
RunStart ==
    /\ canceled \in BOOLEAN
    /\ dstatus = "running"
    /\ cstatus = "created"
    /\ tries = 0
    /\ polls = 0
    /\ stopCalls = 0
    /\ logged = FALSE

RunOver == pc \in {"done", "failed"}

\* The task is revoked: task.canceled becomes true.
Cancel ==
    /\ ~RunOver
    /\ ~canceled
    /\ canceled' = TRUE
    /\ UNCHANGED <<dstatus, cstatus, tries, polls, stopCalls, logged>>
    /\ UNCHANGED loopVars

\* The container's process ends, or the daemon marks the container dead.
ContainerExits ==
    /\ ~RunOver
    /\ dstatus = "running"
    /\ dstatus' \in {"exited", "dead"}
    /\ UNCHANGED <<canceled, cstatus, tries, polls, stopCalls, logged>>
    /\ UNCHANGED loopVars

\* After select_loop returned: `if task.canceled: container.stop()`, which
\* succeeds, times out (ReadTimeout) or fails (DockerException).
AfterLoop ==
    /\ pc = "returned"
    /\ IF canceled
       THEN \E o \in {"ok", "timeout", "error"} :
              /\ stopCalls' = stopCalls + 1
              /\ dstatus' = IF o = "ok" /\ dstatus = "running" THEN "exited" ELSE dstatus
              /\ tries' = IF o = "timeout" THEN RetryBudget ELSE tries
              /\ err' = IF o = "error" THEN "stop" ELSE err
              /\ pc' = IF o = "timeout" THEN "retry" ELSE "finally"
       ELSE /\ pc' = "finally"
            /\ UNCHANGED <<stopCalls, dstatus, tries, err>>
    /\ UNCHANGED <<passed, readers, writers, closes, exit, sawCancel, readable,
                   writable, stepErr, nEval, nPoll, nStep, cancelEvals>>
    /\ UNCHANGED <<canceled, cstatus, polls, logged>>

\* One test of `while tries > 0:` in the ReadTimeout handler, with the
\* loop body when it holds and the statements after the loop when not.
RetryPoll ==
    /\ pc = "retry"
    /\ polls < MaxPolls
    /\ IF tries > 0
       THEN /\ cstatus' = dstatus
            /\ polls' = polls + 1
            /\ pc' = IF dstatus = "exited" THEN "finally" ELSE "retry"
            /\ UNCHANGED logged
       ELSE /\ logged' = (cstatus # "exited")
            /\ pc' = "finally"
            /\ UNCHANGED <<cstatus, polls>>
    /\ UNCHANGED <<canceled, dstatus, tries, stopCalls>>
    /\ UNCHANGED <<passed, readers, writers, closes, exit, sawCancel, readable,
                   writable, err, stepErr, nEval, nPoll, nStep, cancelEvals>>

\* The finally clause of _run_select_loop closes the attached sockets; the
\* function then returns, or the exception in flight goes on to its caller.
CloseSockets ==
    /\ pc \in {"finally", "raised"}
    /\ pc' = IF err = "none" THEN "done" ELSE "failed"
    /\ UNCHANGED <<passed, readers, writers, closes, exit, sawCancel, readable,
                   writable, err, stepErr, nEval, nPoll, nStep, cancelEvals>>
    /\ UNCHANGED runVars

\* ======================================================================
\* DockerTask.__call__ and the temporary volumes
\* ======================================================================

\* Bounds: entries of the `volumes` list; calls of transform() on one
\* volume object that are told apart.
MaxVolumes == 2
MaxResolves == 2

\* A Volume with explicit paths, a TemporaryVolume() that delegates to the
\* per-run default volume, a TemporaryVolume(host_dir=...) of its own.
VolumeKinds == {"plain", "tmp", "tmpdir"}

\* A path attribute that is None.
NoPath == <<>>

\* The directory tempfile.mkdtemp() made for the default volume (0) or for
\* the TemporaryVolume(host_dir=...) at index i of the list.
TempDir(i) == <<"tmp", i>>

\* mkdtemp() returns a fresh name at every call: the n-th further call made
\* for volume i.
MkdTemp(i, n) == IF n = 0 THEN TempDir(i) ELSE <<"tmp", i, n>>

\* The container path chosen (uuid4) together with the n-th host directory.
MountPath(i, n) == <<"mnt", i, n>>

\* The host path an explicit Volume at index i names.
HostDir(i) == <<"host", i>>

\* The `volumes` list entries that are TemporaryVolume instances, in order.
TempVolumeIdx(items) ==
    SelectSeq([i \in 1..Len(items) |-> i], LAMBDA i : items[i] # "plain")

\* v.host_path in volume state v with _transformed flags tr: a delegating
\* TemporaryVolume whose _instance is set answers with the default's path.
HostPathIn(v, tr, items, i) ==
    IF i # 0 /\ items[i] = "tmp" /\ tr[i] THEN v[0].host ELSE v[i].host

\* v.container_path, likewise.
ContainerPathIn(v, tr, items, i) ==
    IF i # 0 /\ items[i] = "tmp" /\ tr[i] THEN v[0].cont ELSE v[i].cont

\* v.host_path in the current state.
HostPath(items, i) == HostPathIn(vol, vtrans, items, i)

\* The guard of TemporaryVolume.transform with every call making a directory.
NeedsMkdtempAlways(transformed) == TRUE

\* `if not self._transformed:` in TemporaryVolume.transform.
NeedsMkdtemp(transformed) == ~transformed

\* One more call of transform() noted on volume i, with the paths the
\* volume shows afterwards.
NoteResolved(st, items, i) ==
    [st EXCEPT !.vol[i].res = Min(@ + 1, MaxResolves),
               !.vol[i].seen = @ \cup {<<HostPathIn(st.vol, st.trans, items, i),
                                        ContainerPathIn(st.vol, st.trans, items, i)>>}]

\* v.transform(temp_volume=<the run's default volume>) on the volume at
\* index i (0: the default volume itself), over
\* st = [trans, defTrans, vol, dirs, created].
TransformVolume(st, items, i) ==
    LET d == [st EXCEPT !.defTrans = TRUE]
        t == IF i = 0 THEN d
             ELSE IF items[i] = "plain" THEN st
             ELSE IF items[i] = "tmp"
                  THEN NoteResolved([d EXCEPT !.trans[i] = TRUE], items, 0)
             ELSE IF NeedsMkdtemp(st.trans[i])
                  THEN LET n == st.vol[i].made
                       IN  [st EXCEPT !.trans[i] = TRUE,
                                      !.vol[i].host = MkdTemp(i, n),
                                      !.vol[i].cont = MountPath(i, n),
                                      !.vol[i].made = n + 1,
                                      !.dirs = @ \cup {MkdTemp(i, n)},
                                      !.created = @ \cup {MkdTemp(i, n)}]
                  ELSE st
    IN  NoteResolved(t, items, i)

\* _walk_obj(volumes, self._maybe_transform_argument): the entries i..n of
\* the list transformed in list order.
RECURSIVE TransformFrom(_, _, _)
TransformFrom(st, items, i) ==
    IF i > Len(items) THEN st
    ELSE TransformFrom(TransformVolume(st, items, i), items, i + 1)

\* `for v in ...: shutil.rmtree(v.host_path)` over st = [dirs, failed];
\* rmtree of a missing path raises and ends the iteration.
RECURSIVE RmTrees(_, _)
RmTrees(paths, st) ==
    IF paths = <<>> \/ st.failed THEN st
    ELSE IF Head(paths) \in st.dirs
         THEN RmTrees(Tail(paths), [st EXCEPT !.dirs = @ \ {Head(paths)}])
         ELSE [st EXCEPT !.failed = TRUE]

\* A volume object before anything was done with it.
FreshVolume(host, cont) ==
    [host |-> host, cont |-> cont, made |-> 0, res |-> 0, seen |-> {}]

\* The volume state of the run as one record.
VolumeState ==
    [trans |-> vtrans, defTrans |-> defTransformed, vol |-> vol,
     dirs |-> dirs, created |-> created]

TaskIdle ==
    /\ tpc = "idle"
    /\ vols = [isList |-> FALSE, items |-> <<>>]
    /\ vtrans = <<>>
    /\ defTransformed = FALSE
    /\ vol = [i \in {0} |-> FreshVolume(NoPath, NoPath)]
    /\ dirs = {}
    /\ created = {}
    /\ chmodded = {}
    /\ bodyResult = "none"

\* docker_run is called with a dict of volumes or a list of Volume objects.
TaskStart ==
    /\ tpc = "start"
    /\ \E isList \in BOOLEAN, items \in SeqsUpTo(VolumeKinds, MaxVolumes) :
         /\ (~isList => items = <<>>)
         /\ vols = [isList |-> isList, items |-> items]
         /\ vtrans = [i \in 1..Len(items) |-> FALSE]
         /\ vol = [i \in 0..Len(items) |->
                     IF i # 0 /\ items[i] = "plain"
                     THEN FreshVolume(HostDir(i), <<"cont", i>>)
                     ELSE FreshVolume(NoPath, NoPath)]
         /\ dirs = {HostDir(i) : i \in {j \in 1..Len(items) : items[j] = "plain"}}
    /\ defTransformed = FALSE
    /\ created = {}
    /\ chmodded = {}
    /\ bodyResult = "none"

\* __call__ up to the task body: the default volume is constructed (its
\* __init__ calls tempfile.mkdtemp()), and every entry of a `volumes` list
\* is transformed with temp_volume set to it.
TaskBegin ==
    /\ tpc = "start"
    /\ LET s0 == [VolumeState EXCEPT
                     !.vol[0].host = TempDir(0),
                     !.vol[0].cont = MountPath(0, 0),
                     !.vol[0].made = 1,
                     !.dirs = @ \cup {TempDir(0)},
                     !.created = @ \cup {TempDir(0)}]
           s1 == TransformFrom(s0, vols.items, 1)
       IN  /\ dirs' = s1.dirs
           /\ created' = s1.created
           /\ vtrans' = s1.trans
           /\ defTransformed' = s1.defTrans
           /\ vol' = s1.vol
    /\ tpc' = "body"
    /\ UNCHANGED <<vols, chmodded, bodyResult>>

\* The task body resolves the default volume (a FilePath or named pipe
\* argument is transformed).
BodyResolvesDefault ==
    /\ tpc = "body"
    /\ vol[0].res < MaxResolves
    /\ LET s1 == TransformVolume(VolumeState, vols.items, 0)
       IN  /\ defTransformed' = s1.defTrans
           /\ vol' = s1.vol
    /\ UNCHANGED <<tpc, vols, vtrans, dirs, created, chmodded, bodyResult>>

\* The task body resolves an entry of the `volumes` list once more (an
\* argument that refers to the same volume object is transformed).
BodyResolvesVolume ==
    /\ tpc = "body"
    /\ \E i \in 1..Len(vols.items) :
         /\ vol[i].res < MaxResolves
         /\ LET s1 == TransformVolume(VolumeState, vols.items, i)
            IN  /\ dirs' = s1.dirs
                /\ created' = s1.created
                /\ vtrans' = s1.trans
                /\ defTransformed' = s1.defTrans
                /\ vol' = s1.vol
    /\ UNCHANGED <<tpc, vols, chmodded, bodyResult>>

\* super().__call__ ends: it returns, it returns after a cancellation (the
\* container was stopped), or it raises; an exception leaves __call__.
BodyEnds ==
    /\ tpc = "body"
    /\ \E r \in {"returned", "canceled", "raised"} :
         /\ bodyResult' = r
         /\ tpc' = IF r = "raised" THEN "raised" ELSE "teardown"
    /\ UNCHANGED <<vols, vtrans, defTransformed, vol, dirs, created, chmodded>>

\* The statements after super().__call__: filter the temporary volumes by
\* the existence of their host path; if any is left, chmod_writable on
\* them (and on the default volume if it was transformed), then rmtree on
\* each of them and on the default volume.
Teardown ==
    /\ tpc = "teardown"
    /\ LET items == vols.items
           tv    == SelectSeq(TempVolumeIdx(items),
                              LAMBDA i : HostPath(items, i) \in dirs)
           toChmod == IF defTransformed THEN Append(tv, 0) ELSE tv
           r     == RmTrees([k \in 1..(Len(tv) + 1) |->
                                HostPath(items, Append(tv, 0)[k])],
                            [dirs |-> dirs, failed |-> FALSE])
       IN  IF Len(tv) > 0
           THEN /\ chmodded' = chmodded \cup
                       {HostPath(items, toChmod[k]) : k \in 1..Len(toChmod)}
                /\ dirs' = r.dirs
                /\ tpc' = IF r.failed THEN "raised" ELSE "done"
           ELSE /\ tpc' = "done"
                /\ UNCHANGED <<dirs, chmodded>>
    /\ UNCHANGED <<vols, vtrans, defTransformed, vol, created, bodyResult>>

\* ======================================================================
\* executor.run: the preparation of a container run
\* ======================================================================

\* Bounds: container arguments, task inputs and task outputs.
MaxArgs == 1
MaxInputs == 2
MaxOutputs == 1

\* Bound: container arguments of a task without inputs and outputs.
MaxArgsAlone == 2

\* Bound: outputs of a task whose results are collected after the run.
MaxCollected == 2

\* A container argument is a string of parts: literal text, or a token
\* $input{id} (id bound / `_tempdir` / unknown), $flag{id} (bound value
\* true / false), $output{id} (binding with a name / without).
ArgSamples ==
    { <<"lit">>, <<"inOk">>, <<"inBad">>, <<"outBad">>, <<"lit", "flagOff">> }

\* A task input or output: whether its spec says stream, whether its
\* target is 'filepath', whether its path is absolute, and whether the id
\* has a binding.
BindingKinds ==
    { [stream |-> TRUE,  filepath |-> TRUE, abs |-> FALSE, bound |-> TRUE],
      [stream |-> TRUE,  filepath |-> TRUE, abs |-> TRUE,  bound |-> TRUE],
      [stream |-> FALSE, filepath |-> TRUE, abs |-> FALSE, bound |-> TRUE],
      [stream |-> TRUE,  filepath |-> TRUE, abs |-> FALSE, bound |-> FALSE] }

\* The task inputs and outputs of the pipe set-up proper: a valid
\* streaming filepath binding, a non-streaming one, and one that says
\* stream with an inline target.
PipeKinds ==
    { [stream |-> TRUE,  filepath |-> TRUE,  abs |-> FALSE, bound |-> TRUE],
      [stream |-> FALSE, filepath |-> TRUE,  abs |-> FALSE, bound |-> TRUE],
      [stream |-> TRUE,  filepath |-> FALSE, abs |-> FALSE, bound |-> TRUE] }

\* The output specs validate_task_outputs accepts under an ordinary id:
\* those with a filepath target.
ValidOutputKinds == {k \in PipeKinds : k.filepath}

\* One of the ids `_stdin`, `_stdout`, `_stderr` (inline target): not in
\* the task spec, in the task spec without a binding, bound and declared
\* stream, bound and not declared stream.
StdKinds == {"absent", "unbound", "stream", "plain"}

NoStdio == [stdin |-> "absent", stdout |-> "absent", stderr |-> "absent"]

\* The key of a pipe map that is the id itself.
StdKey(name) == <<"std", name, 0>>

\* The name `id` when no loop has bound it.
NoId == <<"none", 0>>

\* The keys of task_inputs: the ids 1..n and 0 for `_stdin`.
InputKeys(specs, io) ==
    DOMAIN specs \cup (IF io.stdin # "absent" THEN {0} ELSE {})

\* The keys of task_outputs: the ids 1..n, 0 for `_stdout`, -1 for `_stderr`.
OutputKeys(specs, io) ==
    DOMAIN specs \cup (IF io.stdout # "absent" THEN {0} ELSE {})
                 \cup (IF io.stderr # "absent" THEN {-1} ELSE {})

\* What the name `id` holds after the two loops over task_inputs (order
\* oi) and task_outputs (order oo): the last key the later loop yielded.
LastId(oi, oo) ==
    IF oo # <<>> THEN <<"out", oo[Len(oo)]>>
    ELSE IF oi # <<>> THEN <<"in", oi[Len(oi)]>>
    ELSE NoId

\* `id in inputs` for a value of the name `id` (input and output ids are
\* different names).
InInputs(id, specs, io) ==
    /\ id[1] = "in"
    /\ IF id[2] = 0 THEN io.stdin \in {"stream", "plain"} ELSE specs[id[2]].bound

\* The orders in which a dict with keys 1..n can be iterated.
RECURSIVE OrdersOf(_)
OrdersOf(S) ==
    IF S = {} THEN {<<>>}
    ELSE UNION {{<<x>> \o o : o \in OrdersOf(S \ {x})} : x \in S}

\* The arguments of the expansion proper: every token kind alone, and
\* tokens next to literal text or to other tokens.
ArgForms ==
    ArgSamples \cup
    { <<"inTemp">>, <<"outOk">>, <<"flagOn">>, <<"flagOff">>,
      <<"lit", "flagOn">>, <<"lit", "inBad">>, <<"flagOff", "outOk">>,
      <<"flagOff", "outBad">>, <<"flagOff", "flagOff">>, <<"inOk", "outOk">> }

\* The tokens no loop of _expand_args can replace.
BadTokens == {"inBad", "outBad"}

\* What a part of an argument reads after the three loops: the
\* transformed input value, DATA_VOLUME, the flag's `arg`, the path of
\* the output under DATA_VOLUME; literal text stays.
ExpandToken(t) ==
    CASE t = "inOk"   -> "inValue"
      [] t = "inTemp" -> "dataVolume"
      [] t = "flagOn" -> "flagArg"
      [] t = "outOk"  -> "dataVolume/outName"
      [] OTHER        -> t

\* _expand_args with the two `raise` statements taken out.
ExpandArgNoRaise(arg) ==
    LET afterFlags == SelectSeq(arg, LAMBDA t : t # "flagOff")
    IN  [raise |-> FALSE,
         skip  |-> (\E k \in 1..Len(arg) : arg[k] \in {"flagOn", "flagOff"})
                   /\ afterFlags = <<>>,
         parts |-> [k \in 1..Len(afterFlags) |-> ExpandToken(afterFlags[k])]]

\* One argument through _expand_args: [raise, skip, parts]; raise for a
\* token that cannot be expanded; a falsy flag is replaced by '' and skip
\* is set when that leaves the argument empty; parts is the text left.
ExpandArg(arg) ==
    LET afterFlags == SelectSeq(arg, LAMBDA t : t # "flagOff")
        skip == (\E k \in 1..Len(arg) : arg[k] \in {"flagOn", "flagOff"})
                /\ afterFlags = <<>>
    IN  [raise |-> \E k \in 1..Len(arg) : arg[k] \in BadTokens,
         skip  |-> skip,
         parts |-> [k \in 1..Len(afterFlags) |-> ExpandToken(afterFlags[k])]]

\* _expand_args: [raise, args], args being the list of the arguments kept.
RECURSIVE ExpandArgs(_)
ExpandArgs(args) ==
    IF args = <<>> THEN [raise |-> FALSE, args |-> <<>>]
    ELSE LET a    == ExpandArg(Head(args))
             rest == ExpandArgs(Tail(args))
         IN  IF a.raise \/ rest.raise THEN [raise |-> TRUE, args |-> <<>>]
             ELSE IF a.skip THEN rest
             ELSE [raise |-> FALSE, args |-> <<a.parts>> \o rest.args]

InPath(i) == <<"fifo", "in", i>>
OutPath(i) == <<"fifo", "out", i>>
ProgressPath == <<"fifo", "progress", 0>>
FdOf(path) == <<"fd", path>>

\* make_pipe: "no" when the spec is no valid streaming filepath spec of a
\* bound id, "raise" for an absolute path, else the FIFO is made ("yes").
MakePipe(spec) ==
    IF spec.stream /\ spec.bound /\ spec.filepath
    THEN IF spec.abs THEN "raise" ELSE "yes"
    ELSE "no"

\* `for id, spec in task_inputs.iteritems()` over st = [fifos, fds, ipipes,
\* opipes, failed], in the order the dict yields.
RECURSIVE SetupInputs(_, _, _)
SetupInputs(order, specs, st) ==
    IF order = <<>> \/ st.failed THEN st
    ELSE LET id == Head(order)
             m  == MakePipe(specs[id])
         IN  IF m = "raise" THEN [st EXCEPT !.failed = TRUE]
             ELSE IF m = "yes"
                  THEN SetupInputs(Tail(order), specs,
                           [st EXCEPT !.fifos = @ \cup {InPath(id)},
                                      !.ipipes = @ \cup {<<InPath(id), "fetch">>}])
                  ELSE SetupInputs(Tail(order), specs, st)

\* `for id, spec in task_outputs.iteritems()`: the FIFO is made and opened
\* for reading at once.
RECURSIVE SetupOutputs(_, _, _)
SetupOutputs(order, specs, st) ==
    IF order = <<>> \/ st.failed THEN st
    ELSE LET id == Head(order)
             m  == MakePipe(specs[id])
         IN  IF m = "raise" THEN [st EXCEPT !.failed = TRUE]
             ELSE IF m = "yes"
                  THEN SetupOutputs(Tail(order), specs,
                           [st EXCEPT !.fifos = @ \cup {OutPath(id)},
                                      !.fds = @ \cup {FdOf(OutPath(id))},
                                      !.opipes = @ \cup {<<FdOf(OutPath(id)), "push">>}])
                  ELSE SetupOutputs(Tail(order), specs, st)

\* The job progress pipe: made and opened when asked for.
SetupProgress(want, st) ==
    IF st.failed \/ ~want THEN st
    ELSE [st EXCEPT !.fifos = @ \cup {ProgressPath},
                    !.fds = @ \cup {FdOf(ProgressPath)},
                    !.opipes = @ \cup {<<FdOf(ProgressPath), "progress">>}]

\* The special handling of `_stdin`: a fetch adapter when it streams, else
\* MemoryFetchAdapter(inputs[id], inputs[id]['data']) with the name `id` as
\* the loops left it (KeyError when that id has no input binding).
SetupStdin(io, specs, id, st) ==
    IF st.failed \/ io.stdin \in {"absent", "unbound"} THEN st
    ELSE IF io.stdin = "stream"
         THEN [st EXCEPT !.ipipes = @ \cup {<<StdKey("_stdin"), "fetch">>}]
    ELSE IF InInputs(id, specs, io)
         THEN [st EXCEPT !.ipipes = @ \cup {<<StdKey("_stdin"), "memory">>},
                         !.memSrc = id]
    ELSE [st EXCEPT !.failed = TRUE]

\* The special handling of `_stdout` or `_stderr`: a push adapter when it
\* streams, else an accumulate adapter on the binding.
SetupStdOutput(name, kind, st) ==
    IF st.failed \/ kind \in {"absent", "unbound"} THEN st
    ELSE [st EXCEPT !.opipes = @ \cup
             {<<StdKey(name), IF kind = "stream" THEN "push" ELSE "accumulate">>}]

\* The output specs of the collection proper: streaming or not, the id
\* bound or not, the binding with or without a 'name', and the spec
\* without a 'path', with a plain one, or with one that holds the token
\* $output{id}.
OutputForms ==
    { [stream |-> s, filepath |-> TRUE, abs |-> FALSE, bound |-> b,
       named |-> n, path |-> p] :
         s \in BOOLEAN, b \in BOOLEAN, n \in BOOLEAN,
         p \in {"none", "plain", "token"} } \ 
    { [stream |-> s, filepath |-> TRUE, abs |-> FALSE, bound |-> FALSE,
       named |-> TRUE, path |-> p] :
         s \in BOOLEAN, p \in {"none", "plain", "token"} }

\* `'path' in spec`, and whether the path holds a token (a spec that says
\* nothing of it has a plain path).
PathKind(spec) == IF "path" \in DOMAIN spec THEN spec.path ELSE "plain"

\* `outputId in outputs and 'name' in outputs[outputId]`.
HasName(spec) ==
    IF "named" \in DOMAIN spec THEN spec.bound /\ spec.named ELSE spec.bound

\* The host path of output id: [raise, path].  Without a 'path' the spec
\* reads '$output{id}': the binding's name, or the id itself when there is
\* none; a token in a given path must expand; the path is taken under
\* DATA_VOLUME, and DATA_VOLUME is replaced by the temporary directory.
ResolvePath(spec, id) ==
    CASE PathKind(spec) = "none" ->
             [raise |-> FALSE,
              path |-> IF HasName(spec) THEN <<"tempdir", "bindingName", id>>
                       ELSE <<"tempdir", "id", id>>]
      [] PathKind(spec) = "token" ->
             IF HasName(spec)
             THEN [raise |-> FALSE, path |-> <<"tempdir", "pathWithName", id>>]
             ELSE [raise |-> TRUE, path |-> NoPath]
      [] OTHER -> [raise |-> FALSE, path |-> <<"tempdir", "path", id>>]

\* The paths the file outputs of a task resolve to.
OutputPaths(specs) ==
    {ResolvePath(specs[i], i).path :
        i \in {k \in DOMAIN specs : /\ specs[k].filepath /\ ~specs[k].stream
                                     /\ ~ResolvePath(specs[k], k).raise}}

\* os.path.exists with every path reported to exist.
PathExistsAlways(path, disk) == TRUE

\* os.path.exists(path).
PathExists(path, disk) == path \in disk

\* `for name, spec in task_outputs.iteritems()` after the run, over
\* st = [bound, err]: bound the pairs <<name, outputs[name]['script_data']>>.
RECURSIVE Collect(_, _, _, _)
Collect(order, specs, disk, st) ==
    IF order = <<>> \/ st.err # "none" THEN st
    ELSE LET id   == Head(order)
             spec == specs[id]
             r    == ResolvePath(spec, id)
         IN  IF ~(spec.filepath /\ ~spec.stream)
             THEN Collect(Tail(order), specs, disk, st)
             ELSE IF r.raise THEN [st EXCEPT !.err = "token"]
             ELSE IF ~PathExists(r.path, disk) THEN [st EXCEPT !.err = "missing"]
             ELSE IF ~spec.bound THEN [st EXCEPT !.err = "keyError"]
             ELSE Collect(Tail(order), specs, disk,
                      [st EXCEPT !.bound = @ \cup {<<id, r.path>>}])

ExecIdle ==
    /\ epc = "idle"
    /\ eargs = <<>>
    /\ newArgs = <<>>
    /\ tin = <<>>
    /\ tout = <<>>
    /\ progress = FALSE
    /\ fifos = {}
    /\ fds = {}
    /\ ipipes = {}
    /\ opipes = {}
    /\ started = FALSE
    /\ stdio = NoStdio
    /\ memSrc = NoId
    /\ onDisk = {}
    /\ scriptData = {}
    /\ collectErr = "none"

\* run() is called with a task, its inputs and its outputs.
ExecStart ==
    /\ epc = "expand"
    /\ eargs \in SeqsUpTo(ArgSamples, MaxArgs)
    /\ tin \in SeqsUpTo(BindingKinds, MaxInputs)
    /\ tout \in SeqsUpTo(BindingKinds, MaxOutputs)
    /\ progress \in BOOLEAN
    /\ newArgs = <<>>
    /\ fifos = {}
    /\ fds = {}
    /\ ipipes = {}
    /\ opipes = {}
    /\ started = FALSE
    /\ stdio = NoStdio
    /\ memSrc = NoId
    /\ onDisk = {}
    /\ scriptData = {}
    /\ collectErr = "none"

\* run() is called with a task without container_args whose inputs and
\* outputs may include the standard streams.
PipesStart ==
    /\ epc = "expand"
    /\ eargs = <<>>
    /\ tin \in SeqsUpTo(PipeKinds, MaxInputs)
    /\ tout \in SeqsUpTo(ValidOutputKinds, MaxOutputs)
    /\ progress \in BOOLEAN
    /\ stdio \in [stdin : StdKinds, stdout : StdKinds, stderr : StdKinds]
    /\ newArgs = <<>>
    /\ fifos = {}
    /\ fds = {}
    /\ ipipes = {}
    /\ opipes = {}
    /\ started = FALSE
    /\ memSrc = NoId
    /\ onDisk = {}
    /\ scriptData = {}
    /\ collectErr = "none"

\* run() is called with a task that has outputs only.
OutputsStart ==
    /\ epc = "expand"
    /\ eargs = <<>>
    /\ tin = <<>>
    /\ tout \in SeqsUpTo(OutputForms, MaxCollected)
    /\ progress = FALSE
    /\ stdio = NoStdio
    /\ newArgs = <<>>
    /\ fifos = {}
    /\ fds = {}
    /\ ipipes = {}
    /\ opipes = {}
    /\ started = FALSE
    /\ memSrc = NoId
    /\ onDisk = {}
    /\ scriptData = {}
    /\ collectErr = "none"

\* run() is called with a task that has container_args only.
ArgsStart ==
    /\ epc = "expand"
    /\ eargs \in SeqsUpTo(ArgForms, MaxArgsAlone)
    /\ tin = <<>>
    /\ tout = <<>>
    /\ progress = FALSE
    /\ stdio = NoStdio
    /\ newArgs = <<>>
    /\ fifos = {}
    /\ fds = {}
    /\ ipipes = {}
    /\ opipes = {}
    /\ started = FALSE
    /\ memSrc = NoId
    /\ onDisk = {}
    /\ scriptData = {}
    /\ collectErr = "none"

\* `args = _expand_args(...)`: the first statement of run() that can fail.
ExecExpand ==
    /\ epc = "expand"
    /\ LET r == ExpandArgs(eargs)
       IN  IF r.raise
           THEN /\ epc' = "prepFailed"
                /\ UNCHANGED newArgs
           ELSE /\ epc' = "pipes"
                /\ newArgs' = r.args
    /\ UNCHANGED <<eargs, tin, tout, progress, fifos, fds, ipipes, opipes,
                   started, stdio, memSrc, onDisk, scriptData, collectErr>>

\* `ipipes, opipes = _setup_pipes(...)`, the dicts iterated in some order.
ExecSetupPipes ==
    /\ epc = "pipes"
    /\ \E oi \in OrdersOf(InputKeys(tin, stdio)),
          oo \in OrdersOf(OutputKeys(tout, stdio)) :
         LET s0 == [fifos |-> fifos, fds |-> fds, ipipes |-> {}, opipes |-> {},
                    memSrc |-> memSrc, failed |-> FALSE]
             s1 == SetupInputs(SelectSeq(oi, LAMBDA k : k > 0), tin, s0)
             s2 == SetupOutputs(SelectSeq(oo, LAMBDA k : k > 0), tout, s1)
             s3 == SetupProgress(progress, s2)
             s4 == SetupStdin(stdio, tin, LastId(oi, oo), s3)
             s5 == SetupStdOutput("_stdout", stdio.stdout, s4)
             s6 == SetupStdOutput("_stderr", stdio.stderr, s5)
         IN  /\ fifos' = s6.fifos
             /\ fds' = s6.fds
             /\ ipipes' = IF s6.failed THEN ipipes ELSE s6.ipipes
             /\ opipes' = IF s6.failed THEN opipes ELSE s6.opipes
             /\ memSrc' = IF s6.failed THEN memSrc ELSE s6.memSrc
             /\ epc' = IF s6.failed THEN "prepFailed" ELSE "run"
    /\ UNCHANGED <<eargs, newArgs, tin, tout, progress, started, stdio,
                   onDisk, scriptData, collectErr>>

\* `_docker_run(...)`: the container is started and runs to its end;
\* which of the output files it has written is its own affair.
ExecDockerRun ==
    /\ epc = "run"
    /\ started' = TRUE
    /\ epc' = "ran"
    /\ onDisk' \in SUBSET OutputPaths(tout)
    /\ UNCHANGED <<eargs, newArgs, tin, tout, progress, fifos, fds, ipipes,
                   opipes, stdio, memSrc, scriptData, collectErr>>

\* The loop over task_outputs after the container run, in the order the
\* dict yields.
ExecCollect ==
    /\ epc = "ran"
    /\ \E order \in OrdersOf(DOMAIN tout) :
         LET r == Collect(order, tout, onDisk,
                          [bound |-> scriptData, err |-> "none"])
         IN  /\ scriptData' = r.bound
             /\ collectErr' = r.err
             /\ epc' = IF r.err = "none" THEN "done" ELSE "collectFailed"
    /\ UNCHANGED <<eargs, newArgs, tin, tout, progress, fifos, fds, ipipes,
                   opipes, started, stdio, memSrc, onDisk>>

\* ======================================================================
\* A stream connector: open, transfer steps, close
\* ======================================================================

\* Bounds: bytes of the input stream; bytes one read() returns; calls
\* recorded on the two ends of the connector.
MaxStream == 3
MaxChunk == 2
MaxCalls == 6

\* An end that is a descriptor open from construction (its open() is the
\* inherited no-op), or a named pipe that open() has to open.
EndKinds == {"fd", "pipe"}

\* The state of an end after construction.
EndAtStart(kind) == IF kind = "fd" THEN "open" ELSE "unopened"

\* end.open(): nothing for a descriptor or a pipe that has its descriptor;
\* a named pipe gets one unless os.open fails with ENXIO, which is
\* swallowed (ok = FALSE).
EndOpen(kind, st, ok) ==
    IF kind = "pipe" /\ st = "unopened" /\ ok THEN "open" ELSE st

\* The ends WriteStreamConnector.open and ReadStreamConnector.open call
\* open() on, in order.
OpenOrder(kind) == IF kind = "write" THEN <<"output">> ELSE <<"input">>

\* The ends WriteStreamConnector.close and ReadStreamConnector.close call
\* close() on, in order.
CloseOrder(kind) ==
    IF kind = "write" THEN <<"output", "input">> ELSE <<"input", "output">>

\* The calls of one operation on the ends named, as log entries.
Calls(op, sides) == [k \in 1..Len(sides) |-> <<op, sides[k]>>]

\* The descriptor an end was constructed with, or the one the NamedPipe
\* of a named-pipe end gets from os.open.
EndFd(side) == <<"fd", side>>

\* Descriptor 0, the default of FileDescriptorReader.__init__ and
\* FileDescriptorWriter.__init__.
DefaultFd == <<"fd", "0">>

\* No descriptor: None.
NoFd == <<"fd", "None">>

\* self._fd of an end, the descriptor its read, write and close act on:
\* NamedPipeReader and NamedPipeWriter construct their base class without
\* an argument.
OperatedFd(kind, side) == IF kind = "pipe" THEN DefaultFd ELSE EndFd(side)

\* end.fileno(): self._fd of a descriptor end, self._pipe.fileno() of a
\* named-pipe end (None until the pipe is open).
EndFileno(kind, side, st) ==
    IF kind = "pipe" /\ st # "open" THEN NoFd ELSE EndFd(side)

\* connector.fileno(): [raise, value].  ReadStreamConnector evaluates
\* self.input.fileno() and returns nothing; WriteStreamConnector reads
\* self._output, an attribute no statement sets.
ConnectorFileno(c, st) ==
    IF c.kind = "write"
    THEN [raise |-> TRUE, value |-> NoFd]
    ELSE [raise |-> FALSE, value |-> NoFd]

\* The operations of a list of calls with the descriptors they act on.
Touched(c, calls) ==
    {<<calls[k][1], calls[k][2], OperatedFd(c[calls[k][2]], calls[k][2])>> :
        k \in {j \in 1..Len(calls) : calls[j][1] # "open"}}

\* The output receives a chunk in front of what it already has.
DeliverInFront(out, buf) == buf \o out

\* self.output.write(buf): the chunk follows what was written before.
Deliver(out, buf) == out \o buf

ConnIdle ==
    /\ conn = [kind |-> "none", input |-> "fd", output |-> "fd"]
    /\ ends = [input |-> "closed", output |-> "closed"]
    /\ clog = <<>>
    /\ clast = "none"
    /\ cstream = <<>>
    /\ cpos = 0
    /\ cdelivered = <<>>
    /\ cfileno = [raise |-> FALSE, value |-> <<"notCalled">>]
    /\ ctouched = {}

\* A connector is constructed over two ends; the input side will yield
\* the bytes 1..n.
ConnStart ==
    /\ \E k \in {"read", "write"}, i \in EndKinds, o \in EndKinds :
         /\ conn = [kind |-> k, input |-> i, output |-> o]
         /\ ends = [input |-> EndAtStart(i), output |-> EndAtStart(o)]
    /\ \E n \in 0..MaxStream : cstream = [b \in 1..n |-> b]
    /\ clog = <<>>
    /\ clast = "none"
    /\ cpos = 0
    /\ cdelivered = <<>>
    /\ cfileno = [raise |-> FALSE, value |-> <<"notCalled">>]
    /\ ctouched = {}

\* The connector has closed (by itself at end of stream, or by the loop).
ConnClosed == \E k \in 1..Len(clog) : clog[k][1] = "close"

\* connector.open()
ConnOpen ==
    /\ conn.kind # "none"
    /\ ~ConnClosed
    /\ clast # "raised"
    /\ Len(clog) < MaxCalls
    /\ \E ok \in BOOLEAN :
         LET side == OpenOrder(conn.kind)[1]
         IN  ends' = [ends EXCEPT ![side] = EndOpen(conn[side], @, ok)]
    /\ clog' = clog \o Calls("open", OpenOrder(conn.kind))
    /\ clast' = "open"
    /\ UNCHANGED <<conn, cstream, cpos, cdelivered, cfileno, ctouched>>

\* connector.close(): close() on the two ends in the order of the class.
ConnClose ==
    /\ conn.kind # "none"
    /\ ~ConnClosed
    /\ ends' = [input |-> "closed", output |-> "closed"]
    /\ clog' = clog \o Calls("close", CloseOrder(conn.kind))
    /\ clast' = "close"
    /\ ctouched' = ctouched \cup Touched(conn, Calls("close", CloseOrder(conn.kind)))
    /\ UNCHANGED <<conn, cstream, cpos, cdelivered, cfileno>>

\* connector.read(n) or connector.write(n) when the loop found it ready:
\* a chunk is read from the input and written to the output, which takes
\* all of it, takes the first m bytes of it (a short os.write, the count
\* is not looked at) or raises; or nothing could be read and the connector
\* closes itself.
ConnStep ==
    /\ conn.kind # "none"
    /\ ~ConnClosed
    /\ clast # "raised"
    /\ Len(clog) < MaxCalls
    /\ IF cpos < Len(cstream)
       THEN \E n \in 1..Min(MaxChunk, Len(cstream) - cpos) : \E m \in 0..n :
              /\ cpos' = cpos + n
              /\ cdelivered' =
                    IF m = 0 THEN cdelivered
                    ELSE Deliver(cdelivered, SubSeq(cstream, cpos + 1, cpos + m))
              /\ clog' = clog \o <<<<"read", "input">>, <<"write", "output">>>>
              /\ clast' = IF m = 0 THEN "raised" ELSE "step"
              /\ ctouched' = ctouched \cup
                    Touched(conn, <<<<"read", "input">>, <<"write", "output">>>>)
              /\ UNCHANGED ends
       ELSE /\ ends' = [input |-> "closed", output |-> "closed"]
            /\ clog' = clog \o <<<<"read", "input">>>>
                            \o Calls("close", CloseOrder(conn.kind))
            /\ clast' = "step"
            /\ ctouched' = ctouched \cup
                  Touched(conn, <<<<"read", "input">>>>
                                    \o Calls("close", CloseOrder(conn.kind)))
            /\ UNCHANGED <<cpos, cdelivered>>
    /\ UNCHANGED <<conn, cstream, cfileno>>

\* select.select asks the connector for its descriptor: connector.fileno().
ConnFileno ==
    /\ conn.kind # "none"
    /\ ~ConnClosed
    /\ clast # "raised"
    /\ cfileno' = ConnectorFileno(conn, ends)
    /\ UNCHANGED <<conn, ends, clog, clast, cstream, cpos, cdelivered, ctouched>>

\* ======================================================================
\* Two container runs in one worker process
\* ======================================================================

\* Bound: FilePath or named-pipe arguments of one run.
MaxBindings == 2

Runs == {1, 2}

\* The TemporaryVolume objects: 0 is the one object made when the module
\* is loaded, as the default value of the `volume` parameter of FilePath
\* and of the named pipes; r is an object the caller of run r made.
VolumeObjects == {0} \cup Runs

\* self._instance after transform(temp_volume=<default volume of run r>)
\* on a TemporaryVolume without host_dir.
InstanceAfterTransform(old, r) == r

\* The run in whose default volume self._volume.container_path (or
\* host_path) lies: the one of the _instance the object holds now.
PathOwner(inst) == inst

SharedIdle ==
    /\ sobj = [r \in Runs |-> r]
    /\ sinst = [o \in VolumeObjects |-> 0]
    /\ spc = [r \in Runs |-> [phase |-> "done", left |-> 0]]
    /\ syield = [r \in Runs |-> {}]

\* Two runs start, each with some FilePath or named-pipe arguments that
\* were built without a `volume` argument (object 0) or with a
\* TemporaryVolume() of the caller's.
SharedStart ==
    /\ sobj \in [Runs -> VolumeObjects]
    /\ \A r \in Runs : sobj[r] \in {0, r}
    /\ sinst = [o \in VolumeObjects |-> 0]
    /\ \E n \in [Runs -> 1..MaxBindings] :
         spc = [r \in Runs |-> [phase |-> "transform", left |-> n[r]]]
    /\ syield = [r \in Runs |-> {}]

\* Run r: `self._volume.transform(**kwargs)` of one of its arguments, the
\* temp_volume keyword being the run's own default volume.
RunTransform(r) ==
    /\ spc[r].phase = "transform"
    /\ sinst' = [sinst EXCEPT ![sobj[r]] = InstanceAfterTransform(@, r)]
    /\ spc' = [spc EXCEPT ![r].phase = "path"]
    /\ UNCHANGED <<sobj, syield>>

\* Run r: the path of that argument is read off its volume object.
RunReadPath(r) ==
    /\ spc[r].phase = "path"
    /\ syield' = [syield EXCEPT ![r] = @ \cup {PathOwner(sinst[sobj[r]])}]
    /\ spc' = [spc EXCEPT ![r] =
                 IF @.left > 1 THEN [phase |-> "transform", left |-> @.left - 1]
                 ELSE [phase |-> "done", left |-> 0]]
    /\ UNCHANGED <<sobj, sinst>>

\* ======================================================================
\* JobProgressAdapter
\* ======================================================================

\* Bound: bytes written to the progress pipe.
MaxProgressBytes == 6

\* The bytes '\n', '{', '}' and '1'.
NL == 10
ProgressBytes == {10, 123, 125, 49}

\* buf.split(b'\n'): the segments between the newlines, at least one.
RECURSIVE SplitFrom(_, _)
SplitFrom(seq, cur) ==
    IF seq = <<>> THEN <<cur>>
    ELSE IF Head(seq) = NL THEN <<cur>> \o SplitFrom(Tail(seq), <<>>)
    ELSE SplitFrom(Tail(seq), Append(cur, Head(seq)))

SplitLines(seq) == SplitFrom(seq, <<>>)

\* json.loads(line.decode('utf8')) on lines over ProgressBytes: `{}` is an
\* object without fields, a run of the digit 1 is a number, anything else
\* raises ValueError.
JsonLoads(line) ==
    IF line = <<123, 125>> THEN [kind |-> "object"]
    ELSE IF line # <<>> /\ \A k \in 1..Len(line) : line[k] = 49
         THEN [kind |-> "number"]
    ELSE [kind |-> "ValueError"]

\* doc.get('total'), doc.get('current'), doc.get('message') of `{}`.
ProgressOf(doc) == [total |-> None, current |-> None, message |-> None]

\* _parse over st = [calls, raised] for the lines given, in order.
RECURSIVE ParseLines(_, _)
ParseLines(lines, st) ==
    IF lines = <<>> \/ st.raised THEN st
    ELSE LET doc == JsonLoads(Head(lines))
         IN  ParseLines(Tail(lines),
                 IF doc.kind = "object"
                 THEN [st EXCEPT !.calls = Append(@, ProgressOf(doc))]
                 ELSE st)

\* lines[0] when the bytes kept from the last call are forgotten.
FirstLineWithoutCarry(buf, first) == first

\* `if self._buf: lines[0] = self._buf + lines[0]`
FirstLine(buf, first) == buf \o first

ProgressIdle ==
    /\ jstream = <<>>
    /\ jfed = 0
    /\ jbuf = <<>>
    /\ jcalls = <<>>
    /\ jraised = FALSE
    /\ jclosed = FALSE

\* The adapter is constructed; the container will write some bytes.
ProgressStart ==
    /\ jstream \in SeqsUpTo(ProgressBytes, MaxProgressBytes)
    /\ jfed = 0
    /\ jbuf = <<>>
    /\ jcalls = <<>>
    /\ jraised = FALSE
    /\ jclosed = FALSE

\* write(buf) with the next n bytes of the stream.
ProgressWrite ==
    /\ ~jraised
    /\ ~jclosed
    /\ \E n \in 0..(Len(jstream) - jfed) :
         LET buf   == SubSeq(jstream, jfed + 1, jfed + n)
             split == SplitLines(buf)
             lines == [split EXCEPT ![1] = FirstLine(jbuf, @)]
             r     == ParseLines(SubSeq(lines, 1, Len(lines) - 1),
                                 [calls |-> jcalls, raised |-> FALSE])
         IN  /\ jfed' = jfed + n
             /\ jbuf' = lines[Len(lines)]
             /\ jcalls' = r.calls
             /\ jraised' = r.raised
    /\ UNCHANGED <<jstream, jclosed>>

\* close() once the stream has ended and its last bytes were written: the
\* `pass` inherited from StreamPushAdapter.
ProgressClose ==
    /\ ~jclosed
    /\ jfed = Len(jstream)
    /\ jclosed' = TRUE
    /\ UNCHANGED <<jstream, jfed, jbuf, jcalls, jraised>>

\* ======================================================================
\* AccumulateDictAdapter
\* ======================================================================

\* Bound: write() calls on the adapter.
MaxWrites == 3

\* The key the adapter accumulates under and another key of the mapping.
AccKey == "script_data"
OtherKey == "name"

\* A value of the mapping: a string, or AbsentValue for a key not in it.
AbsentValue == <<None>>

\* `if key not in dictionary: dictionary[key] = ''`
AccInit(d) ==
    IF d[AccKey] = AbsentValue THEN [d EXCEPT ![AccKey] = <<>>] ELSE d

\* The value under the key becomes the chunk written last.
AccWriteReplace(d, buf) == [d EXCEPT ![AccKey] = buf]

\* `self.dictionary[self.key] += buf`
AccWrite(d, buf) == [d EXCEPT ![AccKey] = @ \o buf]

AccumIdle ==
    /\ adict0 = [k \in {AccKey, OtherKey} |-> AbsentValue]
    /\ adict = [k \in {AccKey, OtherKey} |-> AbsentValue]
    /\ achunks = <<>>

\* AccumulateDictAdapter(output_spec, key) on a mapping with or without
\* the key.
AccumStart ==
    /\ adict0 \in [{AccKey, OtherKey} -> {AbsentValue, <<>>, <<65>>}]
    /\ adict = AccInit(adict0)
    /\ achunks = <<>>

\* write(buf)
AccumWrite ==
    /\ Len(achunks) < MaxWrites
    /\ \E buf \in Payloads :
         /\ adict' = AccWrite(adict, buf)
         /\ achunks' = Append(achunks, buf)
    /\ UNCHANGED adict0

\* ======================================================================
\* WritePipeAdapter around the host's standard streams
\* ======================================================================

\* Bound: writes one host stream takes.
MaxHostWrites == 2

\* The connectors _run_select_loop builds for the container's stdout and
\* stderr, in the order of the readers list; each ends in a
\* WritePipeAdapter around the host stream of the same name.
HostStreams == <<"stdout", "stderr">>

\* sys.stdout / sys.stderr when the run starts.
OpenStream == [open |-> TRUE, written |-> <<>>]

\* pipe.write(buf) on a file object: [ok, st]; a closed file raises.
PipeWrite(st, who) ==
    IF st.open THEN [ok |-> TRUE, st |-> [st EXCEPT !.written = Append(@, who)]]
    ELSE [ok |-> FALSE, st |-> st]

\* A close() that closes the wrapped pipe.
PipeAdapterCloseClosesPipe(st) == [st EXCEPT !.open = FALSE]

\* WritePipeAdapter.close: the `pass` inherited from StreamPushAdapter.
PipeAdapterClose(st) == st

\* `for stream in readers + writers: stream.close()` over the first n
\* connectors: close() has reached the adapter of each.
RECURSIVE CloseAdapters(_, _)
CloseAdapters(n, st) ==
    IF n = 0 THEN st
    ELSE LET prev == CloseAdapters(n - 1, st)
         IN  [prev EXCEPT ![HostStreams[n]] = PipeAdapterClose(@)]

HostIdle ==
    /\ hpc = "idle"
    /\ hstream = [s \in {} |-> OpenStream]
    /\ hclosed = {}
    /\ hfailed = FALSE

\* The connectors are built: WritePipeAdapter({}, sys.stdout) and
\* WritePipeAdapter({}, sys.stderr).
HostStart ==
    /\ hpc = "running"
    /\ hstream = [s \in {"stdout", "stderr"} |-> OpenStream]
    /\ hclosed = {}
    /\ hfailed = FALSE

\* A step of a connector ends in WritePipeAdapter.write: self.pipe.write(buf).
HostAdapterWrite ==
    /\ hpc = "running"
    /\ \E s \in {"stdout", "stderr"} :
         LET r == PipeWrite(hstream[s], "container")
         IN  /\ Len(hstream[s].written) < MaxHostWrites
             /\ hstream' = [hstream EXCEPT ![s] = r.st]
             /\ hfailed' = (hfailed \/ ~r.ok)
    /\ UNCHANGED <<hpc, hclosed>>

\* The cleanup phase of select_loop: the connectors are closed one after
\* another, each its input and then its output; a close that raises ends
\* the phase, so that close() has reached the adapters of the first n
\* connectors only.
HostCleanup ==
    /\ hpc = "running"
    /\ \E n \in 0..Len(HostStreams) :
         /\ hstream' = CloseAdapters(n, hstream)
         /\ hclosed' = {HostStreams[k] : k \in 1..n}
         /\ hpc' = IF n = Len(HostStreams) THEN "closed" ELSE "closeRaised"
    /\ UNCHANGED hfailed

\* After the run the host process itself writes to a standard stream.
HostProcessWrite ==
    /\ hpc \in {"closed", "closeRaised"}
    /\ \E s \in {"stdout", "stderr"} :
         LET r == PipeWrite(hstream[s], "host")
         IN  /\ Len(hstream[s].written) < MaxHostWrites + 1
             /\ hstream' = [hstream EXCEPT ![s] = r.st]
             /\ hfailed' = (hfailed \/ ~r.ok)
    /\ UNCHANGED <<hpc, hclosed>>

\* ======================================================================
\* _docker_run: the named pipes before the container is started
\* ======================================================================

\* Bound: stream connectors among the arguments of one run.
MaxStreams == 3

\* Bound: passes of the loop whose open() calls are followed.
MaxOpenPasses == 2

\* A stream connector of the run: a ReadStreamConnector on a named pipe
\* the container writes ("read"), a WriteStreamConnector into a named pipe
\* the container reads ("write"), or a ReadStreamConnector on a plain
\* descriptor ("fdread").
StreamSides == {"read", "write", "fdread"}

\* The connector as constructed: NamedPipe.__init__ has made the FIFO and
\* holds no descriptor; a plain descriptor is open already.
NewStream(side) ==
    [side |-> side, fifo |-> side # "fdread", fd |-> side = "fdread"]

\* NamedPipe.open without the test `if self._fd is None`.
PipeOpenAgain(st, outcome) ==
    IF ~st.fifo THEN [raise |-> TRUE, st |-> st, called |-> FALSE]
    ELSE IF outcome = "error" THEN [raise |-> TRUE, st |-> st, called |-> TRUE]
    ELSE IF outcome = "enxio" THEN [raise |-> FALSE, st |-> st, called |-> TRUE]
    ELSE [raise |-> FALSE, st |-> [st EXCEPT !.fd = TRUE], called |-> TRUE]

\* NamedPipe.open under what os.open does: "raise" when the path is gone
\* or os.open fails otherwise; with ENXIO the error is swallowed and the
\* pipe keeps no descriptor; else it has one.
PipeOpen(st, outcome) ==
    IF st.fd THEN [raise |-> FALSE, st |-> st, called |-> FALSE]
    ELSE IF ~st.fifo THEN [raise |-> TRUE, st |-> st, called |-> FALSE]
    ELSE IF outcome = "error" THEN [raise |-> TRUE, st |-> st, called |-> TRUE]
    ELSE IF outcome = "enxio" THEN [raise |-> FALSE, st |-> st, called |-> TRUE]
    ELSE [raise |-> FALSE, st |-> [st EXCEPT !.fd = TRUE], called |-> TRUE]

\* The read streams are those the loop before _run_container opens.
IsReadStream(st) == st.side \in {"read", "fdread"}

StartIdle ==
    /\ kpc = "idle"
    /\ kstreams = <<>>
    /\ knext = 0
    /\ kstarted = FALSE
    /\ kcalls = <<>>
    /\ klast = <<>>
    /\ kpasses = 0

\* _docker_run is entered with the arguments transformed: every named
\* pipe among them was constructed, which made its FIFO.
StartBegin ==
    /\ kpc = "opening"
    /\ \E sides \in SeqsUpTo(StreamSides, MaxStreams) :
         /\ kstreams = [k \in 1..Len(sides) |-> NewStream(sides[k])]
         /\ kcalls = [k \in 1..Len(sides) |-> 0]
         /\ klast = [k \in 1..Len(sides) |-> "none"]
    /\ knext = 0
    /\ kstarted = FALSE
    /\ kpasses = 0

\* One turn of `for stream in read_streams: stream.open()`: the next
\* connector is passed over when it is a write stream, else its input is
\* opened.
StartOpenNext ==
    /\ kpc = "opening"
    /\ knext < Len(kstreams)
    /\ knext' = knext + 1
    /\ LET st == kstreams[knext + 1]
       IN  IF st.side = "read"
           THEN \E outcome \in {"ok", "enxio", "error"} :
                  LET r == PipeOpen(st, outcome)
                  IN  /\ kstreams' = [kstreams EXCEPT ![knext + 1] = r.st]
                      /\ kpc' = IF r.raise THEN "failed" ELSE "opening"
                      /\ kcalls' = [kcalls EXCEPT ![knext + 1] =
                                       IF r.called THEN @ + 1 ELSE @]
                      /\ klast' = [klast EXCEPT ![knext + 1] = outcome]
           ELSE UNCHANGED <<kstreams, kpc, kcalls, klast>>
    /\ UNCHANGED <<kstarted, kpasses>>

\* `container = _run_container(image, container_args, **run_kwargs)`.
StartContainer ==
    /\ kpc = "opening"
    /\ knext = Len(kstreams)
    /\ kstarted' = TRUE
    /\ kpc' = "started"
    /\ UNCHANGED <<kstreams, knext, kcalls, klast, kpasses>>

\* `for writer in writers: writer.open()` over st = [streams, calls, last,
\* raised], oc telling what os.open would do for each pipe: open() of a
\* write connector opens its output, a named pipe writer its pipe; the
\* first open() that raises ends the pass.
RECURSIVE OpenWriters(_, _, _)
OpenWriters(todo, oc, st) ==
    IF todo = <<>> \/ st.raised THEN st
    ELSE LET k == Head(todo)
             r == PipeOpen(st.streams[k], oc[k])
         IN  OpenWriters(Tail(todo), oc,
                 [streams |-> [st.streams EXCEPT ![k] = r.st],
                  calls   |-> [st.calls EXCEPT ![k] = IF r.called THEN @ + 1 ELSE @],
                  last    |-> [st.last EXCEPT ![k] =
                                 IF r.called THEN oc[k] ELSE "held"],
                  raised  |-> r.raise])

\* The end of a pass of select_loop once the container runs: open() is
\* called on every writer.
StartLoopOpens ==
    /\ kpc = "started"
    /\ kpasses < MaxOpenPasses
    /\ \E oc \in [1..Len(kstreams) -> {"ok", "enxio", "error"}] :
         LET writers_ == SelectSeq([k \in 1..Len(kstreams) |-> k],
                                   LAMBDA k : kstreams[k].side = "write")
             r == OpenWriters(writers_, oc,
                      [streams |-> kstreams, calls |-> kcalls, last |-> klast,
                       raised |-> FALSE])
         IN  /\ kstreams' = r.streams
             /\ kcalls' = r.calls
             /\ klast' = r.last
             /\ kpc' = IF r.raised THEN "loopFailed" ELSE "started"
    /\ kpasses' = kpasses + 1
    /\ UNCHANGED <<knext, kstarted>>

\* ======================================================================
\* executor.run hands its pipe maps to _docker_run (plugins/docker/tasks)
\* ======================================================================

\* The pipe maps _setup_pipes can return for a task with one streaming
\* input, one streaming output, a progress pipe and the standard ids.
InputPipeEntries ==
    { <<InPath(1), "fetch">>, <<StdKey("_stdin"), "memory">> }

OutputPipeEntries ==
    { <<FdOf(OutPath(1)), "push">>, <<FdOf(ProgressPath), "progress">>,
      <<StdKey("_stdout"), "accumulate">>, <<StdKey("_stderr"), "push">> }

\* The keywords of the call in executor.run (docker_run_args left empty).
RunCallKeywords ==
    { "pull_image", "entrypoint", "container_args", "volumes",
      "remove_container", "output_pipes", "input_pipes" }

\* run_kwargs: the three defaults, updated with what **kwargs collected
\* of the call's keywords (those that name no parameter of _docker_run),
\* the ones in BLACKLISTED_DOCKER_RUN_ARGS filtered out.
RunKwargs(keywords) ==
    LET params == { "task", "image", "pull_image", "entrypoint",
                    "container_args", "volumes", "remove_container",
                    "stdout_push_adapter", "stderr_push_adapter" }
        blacklisted == {"tty", "detach"}
    IN  {"tty", "volumes", "detach"} \cup ((keywords \ params) \ blacklisted)

\* The keywords of containers.run that _docker_run sets itself.
OwnRunKwargs == {"tty", "volumes", "detach", "entrypoint"}

\* The parameters of select_loop.
SelectLoopParams == {"exit_condition", "readers", "writers"}

\* The keywords of the select_loop call in _run_select_loop.
LoopCallKeywords == {"exit_condition", "readers", "writes"}

\* A Python call with keywords: TypeError for a keyword the callee has no
\* parameter for (and no ** parameter to collect it).
Binds(keywords, params) == keywords \subseteq params

\* The attached socket of a standard stream of the container.
Socket(name) == <<"socket", name>>

\* The connector _run_select_loop appends for the container's stdout.
StdoutConnector ==
    [input |-> Socket("stdout"), output |-> <<"host", "stdout">>]

\* The connector it appends for the container's stderr: the reader is
\* built on stdout.fileno().
StderrConnector ==
    [input |-> Socket("stdout"), output |-> <<"host", "stderr">>]

\* _handle_streaming_args over the expanded container arguments, which
\* are strings: no argument is a Connect, no connector is made.
StreamsOfArgs(args) == SelectSeq(args, LAMBDA a : a = "connect")

HandIdle ==
    /\ xpc = "idle"
    /\ xipipes = {}
    /\ xopipes = {}
    /\ xkwargs = {}
    /\ xreaders = <<>>
    /\ xwriters = <<>>
    /\ xdriven = {}
    /\ xerr = "none"

\* executor.run has built ipipes and opipes and is about to call
\* _docker_run.
HandStart ==
    /\ xpc = "call"
    /\ xipipes \in SUBSET InputPipeEntries
    /\ xopipes \in SUBSET OutputPipeEntries
    /\ xkwargs = {}
    /\ xreaders = <<>>
    /\ xwriters = <<>>
    /\ xdriven = {}
    /\ xerr = "none"

\* _docker_run up to _run_container: input_pipes and output_pipes land in
\* **kwargs and from there in run_kwargs; the stream lists come from the
\* container arguments alone.
HandDockerRun ==
    /\ xpc = "call"
    /\ xkwargs' = RunKwargs(RunCallKeywords)
    /\ xreaders' = StreamsOfArgs(<<"str">>)
    /\ xwriters' = StreamsOfArgs(<<"str">>)
    /\ xpc' = "container"
    /\ UNCHANGED <<xipipes, xopipes, xdriven, xerr>>

\* client.containers.run(image, container_args, **run_kwargs): with a
\* keyword the docker client does not know it either raises or passes
\* over it.
HandRunContainer ==
    /\ xpc = "container"
    /\ \E accepts \in BOOLEAN :
         IF xkwargs \subseteq OwnRunKwargs \/ accepts
         THEN /\ xpc' = "attached"
              /\ UNCHANGED xerr
         ELSE /\ xpc' = "raised"
              /\ xerr' = "TypeError"
    /\ UNCHANGED <<xipipes, xopipes, xkwargs, xreaders, xwriters, xdriven>>

\* _run_select_loop: the connectors of the container's standard streams
\* are appended and select_loop is called, which serves the connectors it
\* was given until the container is gone.
HandSelectLoop ==
    /\ xpc = "attached"
    /\ xreaders' = xreaders \o <<StdoutConnector, StderrConnector>>
    /\ IF Binds(LoopCallKeywords, SelectLoopParams)
       THEN /\ xdriven' = Range(xreaders') \cup Range(xwriters)
            /\ xpc' = "over"
            /\ UNCHANGED xerr
       ELSE /\ xpc' = "raised"
            /\ xerr' = "TypeError"
            /\ UNCHANGED xdriven
    /\ UNCHANGED <<xipipes, xopipes, xkwargs, xwriters>>

\* ======================================================================
\* _docker_run (docker/tasks): attach, loop, socket close, removal
\* ======================================================================

\* Bound: read connectors among the arguments of the run.
MaxUserStreams == 2

\* The input of a read connector the caller passed: ContainerStdOut,
\* ContainerStdErr, or a named pipe.
UserInputs == {<<"ContainerStdOut">>, <<"ContainerStdErr">>, <<"pipe">>}

\* The placeholder class of a standard stream.
Placeholder(name) ==
    IF name = "stdout" THEN <<"ContainerStdOut">> ELSE <<"ContainerStdErr">>

\* The first index of the list whose input is x, or 0.
FirstOf(list, x) ==
    IF \E k \in 1..Len(list) : list[k] = x
    THEN CHOOSE k \in 1..Len(list) :
            list[k] = x /\ \A j \in 1..(k - 1) : list[j] # x
    ELSE 0

\* One standard stream wired into the list of inputs: the first connector
\* whose input is the placeholder gets a FileDescriptorReader on the
\* descriptor of the stream's socket (`break` after it); without one, a
\* new connector on that descriptor is appended.
WireStream(list, name) ==
    LET k == FirstOf(list, Placeholder(name))
    IN  IF k = 0 THEN Append(list, Socket(name))
        ELSE [list EXCEPT ![k] = Socket(name)]

\* The decision of the finally clause taken on the flag alone.
ShouldRemoveIfSet(flag, status) == flag

\* `if container.status == 'running': warn / else: container.remove()`
\* under `if container and remove_container`.
ShouldRemove(flag, status) == flag /\ status # "running"

EndIdle ==
    /\ fpc = "idle"
    /\ fremove = FALSE
    /\ fuser = <<>>
    /\ fsock = [n \in {"stdout", "stderr"} |-> FALSE]
    /\ freaders = <<>>
    /\ fcloses = [n \in {"stdout", "stderr"} |-> 0]
    /\ fdstatus = "created"
    /\ fstatus = "created"
    /\ freload = "no"
    /\ fremoved = 0
    /\ ferr = "none"

\* _run_container has returned the container, started detached.
EndStart ==
    /\ fpc = "attach"
    /\ fremove \in BOOLEAN
    /\ fuser \in SeqsUpTo(UserInputs, MaxUserStreams)
    /\ fsock = [n \in {"stdout", "stderr"} |-> FALSE]
    /\ freaders = <<>>
    /\ fcloses = [n \in {"stdout", "stderr"} |-> 0]
    /\ fdstatus = "running"
    /\ fstatus = "created"
    /\ freload = "no"
    /\ fremoved = 0
    /\ ferr = "none"

\* _run_select_loop up to the call of select_loop: the two sockets are
\* attached (either attach can fail) and the standard streams are wired
\* into the read connectors.
EndAttach ==
    /\ fpc = "attach"
    /\ \E got \in 0..2 :
         /\ fsock' = [n \in {"stdout", "stderr"} |->
                         (n = "stdout" /\ got >= 1) \/ (n = "stderr" /\ got = 2)]
         /\ IF got = 2
            THEN /\ freaders' = WireStream(WireStream(fuser, "stdout"), "stderr")
                 /\ fpc' = "loop"
                 /\ UNCHANGED ferr
            ELSE /\ ferr' = "attach"
                 /\ fpc' = "sockets"
                 /\ UNCHANGED freaders
    /\ UNCHANGED <<fremove, fuser, fcloses, fdstatus, fstatus, freload, fremoved>>

\* select_loop from its call to its end, and the stop of a canceled
\* container after it: a connector is closed at its end-of-stream or by
\* the cleanup of the loop, and the close of a connector closes the
\* descriptor of its reader (os.close); a close that raises leaves the
\* connectors behind it unclosed.
EndSelectLoop ==
    /\ fpc = "loop"
    /\ \E closed \in SUBSET (1..Len(freaders)), raised \in BOOLEAN :
         /\ (closed # 1..Len(freaders) => raised)
         /\ fcloses' = [n \in {"stdout", "stderr"} |->
                          fcloses[n] + Cardinality({k \in closed :
                                                      freaders[k] = Socket(n)})]
         /\ ferr' = IF raised THEN "loop" ELSE "none"
    /\ fdstatus' \in {"running", "exited", "dead"}
    /\ fpc' = "sockets"
    /\ UNCHANGED <<fremove, fuser, fsock, freaders, fstatus, freload, fremoved>>

\* The finally clause of _run_select_loop: `if stdout: stdout.close()`,
\* `if stderr: stderr.close()`.
EndCloseSockets ==
    /\ fpc = "sockets"
    /\ fcloses' = [n \in {"stdout", "stderr"} |->
                     IF fsock[n] THEN fcloses[n] + 1 ELSE fcloses[n]]
    /\ fpc' = "decide"
    /\ UNCHANGED <<fremove, fuser, fsock, freaders, fdstatus, fstatus, freload,
                   fremoved, ferr>>

\* The finally clause of _docker_run: under remove_container the container
\* is reloaded (which can fail) and removed unless its status is
\* 'running'.
EndRemove ==
    /\ fpc = "decide"
    /\ IF fremove
       THEN \E reloadOk \in BOOLEAN :
              IF reloadOk
              THEN /\ freload' = "ok"
                   /\ fstatus' = fdstatus
                   /\ fremoved' = IF ShouldRemove(fremove, fdstatus)
                                  THEN fremoved + 1 ELSE fremoved
                   /\ UNCHANGED ferr
              ELSE /\ freload' = "raised"
                   /\ ferr' = "reload"
                   /\ UNCHANGED <<fstatus, fremoved>>
       ELSE UNCHANGED <<freload, fstatus, fremoved, ferr>>
    /\ fpc' = "over"
    /\ UNCHANGED <<fremove, fuser, fsock, freaders, fcloses, fdstatus>>

\* ======================================================================
\* Specifications
\* ======================================================================

DemuxSpecInit == DemuxStart /\ LoopIdle /\ RunIdle /\ TaskIdle /\ ExecIdle /\ ConnIdle /\ SharedIdle
    /\ ProgressIdle /\ AccumIdle /\ HostIdle /\ StartIdle /\ HandIdle /\ EndIdle

DemuxSpecNext == DemuxNext /\ UNCHANGED <<loopVars, runVars, taskVars, execVars, connVars, sharedVars,
                 progressVars, accumVars,
                 hostVars,
                 startVars,
                 handVars,
                 endVars>>

SpecDemux == DemuxSpecInit /\ [][DemuxSpecNext]_vars

TaskSpecInit == TaskStart /\ DemuxIdle /\ LoopIdle /\ RunIdle /\ ExecIdle /\ ConnIdle /\ SharedIdle
    /\ ProgressIdle /\ AccumIdle /\ HostIdle /\ StartIdle /\ HandIdle /\ EndIdle

TaskSpecNext ==
    \/ TaskBegin /\ UNCHANGED <<demuxVars, loopVars, runVars, execVars, connVars, sharedVars,
                 progressVars, accumVars,
                 hostVars,
                 startVars,
                 handVars,
                 endVars>>
    \/ BodyResolvesDefault /\ UNCHANGED <<demuxVars, loopVars, runVars, execVars, connVars, sharedVars,
                 progressVars, accumVars,
                 hostVars,
                 startVars,
                 handVars,
                 endVars>>
    \/ BodyResolvesVolume /\ UNCHANGED <<demuxVars, loopVars, runVars, execVars, connVars, sharedVars,
                 progressVars, accumVars,
                 hostVars,
                 startVars,
                 handVars,
                 endVars>>
    \/ BodyEnds /\ UNCHANGED <<demuxVars, loopVars, runVars, execVars, connVars, sharedVars,
                 progressVars, accumVars,
                 hostVars,
                 startVars,
                 handVars,
                 endVars>>
    \/ Teardown /\ UNCHANGED <<demuxVars, loopVars, runVars, execVars, connVars, sharedVars,
                 progressVars, accumVars,
                 hostVars,
                 startVars,
                 handVars,
                 endVars>>

SpecTask == TaskSpecInit /\ [][TaskSpecNext]_vars

ExecSpecInit == ExecStart /\ DemuxIdle /\ LoopIdle /\ RunIdle /\ TaskIdle /\ ConnIdle /\ SharedIdle
    /\ ProgressIdle /\ AccumIdle /\ HostIdle /\ StartIdle /\ HandIdle /\ EndIdle

ExecSpecNext ==
    \/ ExecCollect /\ UNCHANGED <<demuxVars, loopVars, runVars, taskVars, connVars, sharedVars,
                 progressVars, accumVars,
                 hostVars,
                 startVars,
                 handVars,
                 endVars>>
    \/ ExecExpand /\ UNCHANGED <<demuxVars, loopVars, runVars, taskVars, connVars, sharedVars,
                 progressVars, accumVars,
                 hostVars,
                 startVars,
                 handVars,
                 endVars>>
    \/ ExecSetupPipes /\ UNCHANGED <<demuxVars, loopVars, runVars, taskVars, connVars, sharedVars,
                 progressVars, accumVars,
                 hostVars,
                 startVars,
                 handVars,
                 endVars>>
    \/ ExecDockerRun /\ UNCHANGED <<demuxVars, loopVars, runVars, taskVars, connVars, sharedVars,
                 progressVars, accumVars,
                 hostVars,
                 startVars,
                 handVars,
                 endVars>>

SpecExec == ExecSpecInit /\ [][ExecSpecNext]_vars

PipesSpecInit == PipesStart /\ DemuxIdle /\ LoopIdle /\ RunIdle /\ TaskIdle /\ ConnIdle /\ SharedIdle
    /\ ProgressIdle /\ AccumIdle /\ HostIdle /\ StartIdle /\ HandIdle /\ EndIdle

SpecPipes == PipesSpecInit /\ [][ExecSpecNext]_vars

ArgsSpecInit == ArgsStart /\ DemuxIdle /\ LoopIdle /\ RunIdle /\ TaskIdle /\ ConnIdle /\ SharedIdle
    /\ ProgressIdle /\ AccumIdle /\ HostIdle /\ StartIdle /\ HandIdle /\ EndIdle

SpecArgs == ArgsSpecInit /\ [][ExecSpecNext]_vars

OutputsSpecInit == OutputsStart /\ DemuxIdle /\ LoopIdle /\ RunIdle /\ TaskIdle /\ ConnIdle /\ SharedIdle
    /\ ProgressIdle /\ AccumIdle /\ HostIdle /\ StartIdle /\ HandIdle /\ EndIdle

SpecOutputs == OutputsSpecInit /\ [][ExecSpecNext]_vars

ConnSpecInit ==
    /\ ConnStart
    /\ DemuxIdle /\ LoopIdle /\ RunIdle /\ TaskIdle /\ ExecIdle /\ SharedIdle
    /\ ProgressIdle /\ AccumIdle /\ HostIdle /\ StartIdle /\ HandIdle /\ EndIdle

ConnSpecNext ==
    \/ ConnFileno /\ UNCHANGED <<demuxVars, loopVars, runVars, taskVars, execVars, sharedVars,
                 progressVars, accumVars, hostVars,
                 startVars,
                 handVars,
                 endVars>>
    \/ ConnOpen /\ UNCHANGED <<demuxVars, loopVars, runVars, taskVars, execVars, sharedVars,
                 progressVars, accumVars,
                 hostVars,
                 startVars,
                 handVars,
                 endVars>>
    \/ ConnStep /\ UNCHANGED <<demuxVars, loopVars, runVars, taskVars, execVars, sharedVars,
                 progressVars, accumVars,
                 hostVars,
                 startVars,
                 handVars,
                 endVars>>
    \/ ConnClose /\ UNCHANGED <<demuxVars, loopVars, runVars, taskVars, execVars, sharedVars,
                 progressVars, accumVars,
                 hostVars,
                 startVars,
                 handVars,
                 endVars>>

SpecConn == ConnSpecInit /\ [][ConnSpecNext]_vars

SharedSpecInit ==
    /\ SharedStart
    /\ DemuxIdle /\ LoopIdle /\ RunIdle /\ TaskIdle /\ ExecIdle /\ ConnIdle
    /\ ProgressIdle /\ AccumIdle /\ HostIdle /\ StartIdle /\ HandIdle /\ EndIdle

SharedSpecNext ==
    \/ \E r \in Runs : RunTransform(r) /\ UNCHANGED
           <<demuxVars, loopVars, runVars, taskVars, execVars, connVars,
             progressVars, accumVars,
                 hostVars,
                 startVars,
                 handVars,
                 endVars>>
    \/ \E r \in Runs : RunReadPath(r) /\ UNCHANGED
           <<demuxVars, loopVars, runVars, taskVars, execVars, connVars,
             progressVars, accumVars,
                 hostVars,
                 startVars,
                 handVars,
                 endVars>>

SpecShared == SharedSpecInit /\ [][SharedSpecNext]_vars

OtherIdle ==
    /\ DemuxIdle /\ LoopIdle /\ RunIdle /\ TaskIdle /\ ExecIdle /\ ConnIdle
    /\ SharedIdle
    /\ HostIdle
    /\ StartIdle
    /\ HandIdle
    /\ EndIdle

ProgressSpecInit == ProgressStart /\ OtherIdle /\ AccumIdle

ProgressSpecNext ==
    \/ ProgressWrite /\ UNCHANGED
        <<demuxVars, loopVars, runVars, taskVars, execVars, connVars,
          sharedVars, accumVars, hostVars, startVars, handVars, endVars>>
    \/ ProgressClose /\ UNCHANGED
        <<demuxVars, loopVars, runVars, taskVars, execVars, connVars,
          sharedVars, accumVars, hostVars, startVars, handVars, endVars>>

SpecProgress == ProgressSpecInit /\ [][ProgressSpecNext]_vars

AccumSpecInit == AccumStart /\ OtherIdle /\ ProgressIdle

AccumSpecNext ==
    AccumWrite /\ UNCHANGED
        <<demuxVars, loopVars, runVars, taskVars, execVars, connVars,
          sharedVars, progressVars,
                 hostVars,
                 startVars,
                 handVars,
                 endVars>>

SpecAccum == AccumSpecInit /\ [][AccumSpecNext]_vars

HostSpecInit ==
    /\ HostStart
    /\ DemuxIdle /\ LoopIdle /\ RunIdle /\ TaskIdle /\ ExecIdle /\ ConnIdle
    /\ SharedIdle /\ ProgressIdle /\ AccumIdle /\ StartIdle /\ HandIdle /\ EndIdle

HostSpecNext ==
    \/ HostAdapterWrite /\ UNCHANGED
        <<demuxVars, loopVars, runVars, taskVars, execVars, connVars,
          sharedVars, progressVars, accumVars,
                 startVars,
                 handVars,
                 endVars>>
    \/ HostCleanup /\ UNCHANGED
        <<demuxVars, loopVars, runVars, taskVars, execVars, connVars,
          sharedVars, progressVars, accumVars,
                 startVars,
                 handVars,
                 endVars>>
    \/ HostProcessWrite /\ UNCHANGED
        <<demuxVars, loopVars, runVars, taskVars, execVars, connVars,
          sharedVars, progressVars, accumVars,
                 startVars,
                 handVars,
                 endVars>>

SpecHost == HostSpecInit /\ [][HostSpecNext]_vars

StartSpecInit ==
    /\ StartBegin
    /\ DemuxIdle /\ LoopIdle /\ RunIdle /\ TaskIdle /\ ExecIdle /\ ConnIdle
    /\ SharedIdle /\ ProgressIdle /\ AccumIdle /\ HostIdle /\ HandIdle /\ EndIdle

StartSpecNext ==
    \/ StartOpenNext /\ UNCHANGED
        <<demuxVars, loopVars, runVars, taskVars, execVars, connVars,
          sharedVars, progressVars, accumVars, hostVars,
                 handVars,
                 endVars>>
    \/ StartContainer /\ UNCHANGED
        <<demuxVars, loopVars, runVars, taskVars, execVars, connVars,
          sharedVars, progressVars, accumVars, hostVars,
                 handVars,
                 endVars>>
    \/ StartLoopOpens /\ UNCHANGED
        <<demuxVars, loopVars, runVars, taskVars, execVars, connVars,
          sharedVars, progressVars, accumVars, hostVars,
                 handVars,
                 endVars>>

SpecStart == StartSpecInit /\ [][StartSpecNext]_vars

HandSpecInit == HandStart /\ DemuxIdle /\ LoopIdle /\ RunIdle /\ TaskIdle /\ ExecIdle /\ ConnIdle
    /\ SharedIdle /\ ProgressIdle /\ AccumIdle /\ HostIdle /\ StartIdle /\ EndIdle

HandSpecNext ==
    \/ HandDockerRun /\ UNCHANGED <<demuxVars, loopVars, runVars, taskVars, execVars, connVars,
                 sharedVars, progressVars, accumVars, hostVars, startVars,
                 endVars>>
    \/ HandRunContainer /\ UNCHANGED <<demuxVars, loopVars, runVars, taskVars, execVars, connVars,
                 sharedVars, progressVars, accumVars, hostVars, startVars,
                 endVars>>
    \/ HandSelectLoop /\ UNCHANGED <<demuxVars, loopVars, runVars, taskVars, execVars, connVars,
                 sharedVars, progressVars, accumVars, hostVars, startVars,
                 endVars>>

SpecHand == HandSpecInit /\ [][HandSpecNext]_vars

EndSpecInit == EndStart /\ DemuxIdle /\ LoopIdle /\ RunIdle /\ TaskIdle /\ ExecIdle /\ ConnIdle
    /\ SharedIdle /\ ProgressIdle /\ AccumIdle /\ HostIdle /\ StartIdle /\ HandIdle

EndSpecNext ==
    \/ EndAttach /\ UNCHANGED <<demuxVars, loopVars, runVars, taskVars, execVars, connVars,
                 sharedVars, progressVars, accumVars, hostVars, startVars, handVars>>
    \/ EndSelectLoop /\ UNCHANGED <<demuxVars, loopVars, runVars, taskVars, execVars, connVars,
                 sharedVars, progressVars, accumVars, hostVars, startVars, handVars>>
    \/ EndCloseSockets /\ UNCHANGED <<demuxVars, loopVars, runVars, taskVars, execVars, connVars,
                 sharedVars, progressVars, accumVars, hostVars, startVars, handVars>>
    \/ EndRemove /\ UNCHANGED <<demuxVars, loopVars, runVars, taskVars, execVars, connVars,
                 sharedVars, progressVars, accumVars, hostVars, startVars, handVars>>

SpecEnd == EndSpecInit /\ [][EndSpecNext]_vars

Init == LoopStart /\ RunStart /\ DemuxIdle /\ TaskIdle /\ ExecIdle /\ ConnIdle /\ SharedIdle
    /\ ProgressIdle /\ AccumIdle /\ HostIdle /\ StartIdle /\ HandIdle /\ EndIdle

Next ==
    \/ EvalExit /\ UNCHANGED <<demuxVars, taskVars, execVars, connVars, sharedVars,
                 progressVars, accumVars,
                 hostVars,
                 startVars,
                 handVars,
                 endVars>>
    \/ EvalRaises /\ UNCHANGED <<demuxVars, taskVars, execVars, connVars, sharedVars,
                 progressVars, accumVars,
                 hostVars,
                 startVars,
                 handVars,
                 endVars>>
    \/ Select /\ UNCHANGED <<demuxVars, taskVars, execVars, connVars, sharedVars,
                 progressVars, accumVars,
                 hostVars,
                 startVars,
                 handVars,
                 endVars>>
    \/ SelectRaises /\ UNCHANGED <<demuxVars, taskVars, execVars, connVars, sharedVars,
                 progressVars, accumVars,
                 hostVars,
                 startVars,
                 handVars,
                 endVars>>
    \/ Steps /\ UNCHANGED <<demuxVars, taskVars, execVars, connVars, sharedVars,
                 progressVars, accumVars,
                 hostVars,
                 startVars,
                 handVars,
                 endVars>>
    \/ Cleanup /\ UNCHANGED <<demuxVars, taskVars, execVars, connVars, sharedVars,
                 progressVars, accumVars,
                 hostVars,
                 startVars,
                 handVars,
                 endVars>>
    \/ AfterLoop /\ UNCHANGED <<demuxVars, taskVars, execVars, connVars, sharedVars,
                 progressVars, accumVars,
                 hostVars,
                 startVars,
                 handVars,
                 endVars>>
    \/ RetryPoll /\ UNCHANGED <<demuxVars, taskVars, execVars, connVars, sharedVars,
                 progressVars, accumVars,
                 hostVars,
                 startVars,
                 handVars,
                 endVars>>
    \/ CloseSockets /\ UNCHANGED <<demuxVars, taskVars, execVars, connVars, sharedVars,
                 progressVars, accumVars,
                 hostVars,
                 startVars,
                 handVars,
                 endVars>>
    \/ Cancel /\ UNCHANGED <<demuxVars, taskVars, execVars, connVars, sharedVars,
                 progressVars, accumVars,
                 hostVars,
                 startVars,
                 handVars,
                 endVars>>
    \/ ContainerExits /\ UNCHANGED <<demuxVars, taskVars, execVars, connVars, sharedVars,
                 progressVars, accumVars,
                 hostVars,
                 startVars,
                 handVars,
                 endVars>>

Spec == Init /\ [][Next]_vars

\* select_loop alone, its passes not counted, the steps of the program
\* taken whenever they can be.
PassSpecNext ==
    \/ PassEval /\ UNCHANGED <<demuxVars, taskVars, execVars, connVars, sharedVars,
                 progressVars, accumVars, hostVars, startVars, handVars,
                 endVars>>
    \/ EvalRaises /\ UNCHANGED <<demuxVars, taskVars, execVars, connVars, sharedVars,
                 progressVars, accumVars, hostVars, startVars, handVars,
                 endVars>>
    \/ PassSelect /\ UNCHANGED <<demuxVars, taskVars, execVars, connVars, sharedVars,
                 progressVars, accumVars, hostVars, startVars, handVars,
                 endVars>>
    \/ SelectRaises /\ UNCHANGED <<demuxVars, taskVars, execVars, connVars, sharedVars,
                 progressVars, accumVars, hostVars, startVars, handVars,
                 endVars>>
    \/ PassSteps /\ UNCHANGED <<demuxVars, taskVars, execVars, connVars, sharedVars,
                 progressVars, accumVars, hostVars, startVars, handVars,
                 endVars>>
    \/ Cleanup /\ UNCHANGED <<demuxVars, taskVars, execVars, connVars, sharedVars,
                 progressVars, accumVars, hostVars, startVars, handVars,
                 endVars>>
    \/ Cancel /\ UNCHANGED <<demuxVars, taskVars, execVars, connVars, sharedVars,
                 progressVars, accumVars, hostVars, startVars, handVars,
                 endVars>>
    \/ ContainerExits /\ UNCHANGED <<demuxVars, taskVars, execVars, connVars, sharedVars,
                 progressVars, accumVars, hostVars, startVars, handVars,
                 endVars>>

\* The variables select_loop does not touch.
NotOfLoop == <<demuxVars, taskVars, execVars, connVars, sharedVars,
               progressVars, accumVars, hostVars, startVars, handVars,
               endVars>>

PassFairness ==
    /\ WF_vars(PassEval /\ UNCHANGED NotOfLoop)
    /\ WF_vars(PassSelect /\ UNCHANGED NotOfLoop)
    /\ WF_vars(PassSteps /\ UNCHANGED NotOfLoop)
    /\ WF_vars(Cleanup /\ UNCHANGED NotOfLoop)

SpecPasses == Init /\ [][PassSpecNext]_vars /\ PassFairness

\* ---------------------------------------------------------------------
\* Claims about the multiplexing loop
\* ---------------------------------------------------------------------

LoopHasEnded == pc \notin LoopPcs

\* The pass just completed found no remaining reader ready and no
\* remaining writer ready.
PassWasIdle ==
    (readers = <<>> \/ readable = {}) /\ (writers = <<>> \/ writable = {})

C3_ReturnOnlyWhenExitAndIdle ==
    pc = "returned" => (exit /\ PassWasIdle)

\* C3 witness: a normal return after several passes, with connectors still
\* in both lists and none of them reported ready in the last pass.
C3_Witness ==
    /\ pc = "returned"
    /\ nPoll >= 2
    /\ readers # <<>> /\ writers # <<>>
    /\ readable = {} /\ writable = {}

\* C4 as stated: once task.canceled is true the loop is over after the
\* pass in progress and at most one more, whatever the connectors do; so
\* the exit predicate never reads the flag as true more than twice.
C4_BoundedCancelLatency == cancelEvals <= 2

\* C4 amended: once task.canceled is true, the loop goes on to another
\* pass only if the pass whose exit predicate read the flag as true found
\* a remaining reader or writer ready; the first such pass that is idle
\* ends the loop.
C4_CancelEndsLoopWhenIdle ==
    (pc = "eval" /\ nStep >= 1 /\ sawCancel) => ~PassWasIdle

\* C4 witness: canceled while the container was still running, the loop
\* returned at the end of the first pass that read the flag, which was idle
\* although connectors remained.
C4_Witness ==
    /\ pc = "returned"
    /\ sawCancel /\ cancelEvals = 1
    /\ cstatus = "running"
    /\ nPoll >= 2
    /\ readers # <<>>

\* The exit predicate holds, and no connector left on a list was reported
\* ready by the latest poll.
ExitHolds == dstatus \in {"exited", "dead"} \/ canceled

Quiet ==
    \A c \in Range(readers) \cup Range(writers) : c \notin readable \cup writable

\* C33: if from some point on the exit predicate holds and every connector
\* has either reached its end-of-stream (and left its list) or is not
\* reported ready by the poll, select_loop terminates, by returning or by
\* raising.
C33_LoopTerminates ==
    <>[](ExitHolds /\ Quiet) => <>(pc \in {"returned", "raised"})

\* C33 witness: the loop returned with the container gone, one connector
\* taken off its list at its end-of-stream and another still on its list,
\* open and not ready.
C33_Witness ==
    /\ pc = "returned"
    /\ dstatus \in {"exited", "dead"} /\ ~canceled
    /\ \E c \in passed : c \notin Range(readers) \cup Range(writers) /\ closes[c] = 1
    /\ readers # <<>>
    /\ nEval = 0

\* C8: every poll follows the exit predicate's evaluation of its pass,
\* every step phase follows the poll of its pass, and a normal return
\* comes only after at least one full pass, the one whose exit predicate
\* evaluated true included.
C8_EvalThenFullPass ==
    /\ nPoll <= nEval /\ nEval <= nPoll + 1
    /\ nStep <= nPoll /\ nPoll <= nStep + 1
    /\ pc = "select" => nEval = nPoll + 1
    /\ pc = "returned" => (nPoll >= 1 /\ nPoll = nEval /\ nStep = nPoll)

\* C8 witness: no connectors, exit predicate false in pass 1 and true in
\* pass 2; the loop returned after two full passes.
C8_Witness ==
    /\ pc = "returned"
    /\ passed = {}
    /\ nEval = 2 /\ nPoll = 2 /\ nStep = 2

C5_RetryBudgetRespected == polls <= RetryBudget

\* C26 as stated: container.stop() is called only on a task that is
\* canceled and a container whose status, as last reloaded, is neither
\* 'exited' nor 'dead'.
C26_StopOnlyBeforeNaturalExit ==
    [][stopCalls' # stopCalls =>
          canceled /\ cstatus \notin {"exited", "dead"}]_vars

\* ---------------------------------------------------------------------
\* Claims about DockerTask.__call__
\* ---------------------------------------------------------------------

\* C6 as stated: when a DockerTask run has ended, by return or by an
\* exception, no host directory the run created for a temporary volume
\* still exists.
C6_NoTempDirSurvives ==
    tpc \in {"done", "raised"} => created \cap dirs = {}

\* The temporary volume object at index i has had transform() called.
IsResolved(i) == IF i = 0 THEN defTransformed ELSE vtrans[i]

\* C11 as stated: a temporary volume that has not been resolved, the
\* per-run default volume included, has had no host directory created.
C11_UnresolvedHasNoDir ==
    \A i \in DOMAIN vol :
        ((i = 0 \/ vols.items[i] # "plain") /\ ~IsResolved(i))
            => vol[i].made = 0

\* C12: however often one temporary volume is resolved within a run, at
\* most one host directory was made for it and every resolution showed
\* the same host_path and the same container_path.
C12_ResolveIdempotent ==
    \A i \in DOMAIN vol :
        /\ vol[i].made <= 1
        /\ Cardinality(vol[i].seen) <= 1

\* C12 witness: a TemporaryVolume with a host root and the default volume
\* have both been resolved at least twice, each showing one pair of paths.
C12_Witness ==
    /\ tpc = "body"
    /\ vol[0].res >= 2
    /\ vol[0].seen = {<<TempDir(0), MountPath(0, 0)>>}
    /\ \E i \in 1..Len(vols.items) :
         /\ vols.items[i] = "tmpdir"
         /\ vol[i].res >= 2
         /\ vol[i].seen = {<<TempDir(i), MountPath(i, 0)>>}

\* C13 as stated: the volume teardown at the end of __call__ never raises;
\* __call__ raises only when the task body did.
C13_TeardownDoesNotRaise ==
    tpc = "raised" => bodyResult = "raised"

\* C35 as stated: every host directory the teardown removes has been
\* permission-normalized (chmod_writable) in that same teardown before its
\* removal.
C35_ChmodBeforeRemoval ==
    [][tpc = "teardown" => (dirs \ dirs') \subseteq chmodded']_vars

\* ---------------------------------------------------------------------
\* Claims about executor.run
\* ---------------------------------------------------------------------

\* C10 as stated: when the preparation of a run fails, no container has
\* been started, no FIFO has been made and no descriptor has been opened.
C10_PrepFailureLeavesNothing ==
    epc = "prepFailed" => (~started /\ fifos = {} /\ fds = {})

\* _setup_pipes has returned its two maps.
PipesAreSetUp == epc \in {"run", "ran", "done", "collectFailed"}

\* The adapters a pipe map holds under the keys in ks.
AdaptersAt(map, ks) == {e \in map : e[1] \in ks}

\* C14 as stated: once _setup_pipes has returned, every bound binding that
\* says stream has exactly one adapter in the pipe maps, no binding that
\* does not say stream has a FIFO, a non-streaming `_stdin` has a memory
\* fetch adapter and a non-streaming `_stdout` or `_stderr` an accumulate
\* adapter.
C14_OneAdapterPerStreamingBinding ==
    PipesAreSetUp =>
        /\ \A i \in DOMAIN tin :
             IF tin[i].stream /\ tin[i].bound
             THEN Cardinality(AdaptersAt(ipipes, {InPath(i)})) = 1
             ELSE InPath(i) \notin fifos
        /\ \A j \in DOMAIN tout :
             IF tout[j].stream /\ tout[j].bound
             THEN Cardinality(AdaptersAt(opipes, {FdOf(OutPath(j))})) = 1
             ELSE OutPath(j) \notin fifos
        /\ stdio.stdin = "stream" =>
             AdaptersAt(ipipes, {StdKey("_stdin")}) = {<<StdKey("_stdin"), "fetch">>}
        /\ stdio.stdin = "plain" =>
             AdaptersAt(ipipes, {StdKey("_stdin")}) = {<<StdKey("_stdin"), "memory">>}
        /\ \A n \in {"_stdout", "_stderr"} :
             LET k == IF n = "_stdout" THEN stdio.stdout ELSE stdio.stderr
             IN  /\ k = "stream" =>
                      AdaptersAt(opipes, {StdKey(n)}) = {<<StdKey(n), "push">>}
                 /\ k = "plain" =>
                      AdaptersAt(opipes, {StdKey(n)}) = {<<StdKey(n), "accumulate">>}

\* The binding whose 'data' a memory fetch adapter of `_stdin` must hold.
StdinId == <<"in", 0>>

\* C31 as stated: for a bound `_stdin` that is not declared streaming,
\* _setup_pipes registers a memory fetch adapter under `_stdin` whose bytes
\* are the data of the `_stdin` binding, whatever the other inputs and
\* outputs of the task and the order of their iteration.
C31_MemoryAdapterHoldsStdinData ==
    (epc \in {"run", "prepFailed"} /\ stdio.stdin = "plain"
        /\ \A i \in DOMAIN tin : MakePipe(tin[i]) # "raise")
    => /\ epc = "run"
       /\ <<StdKey("_stdin"), "memory">> \in ipipes
       /\ memSrc = StdinId

\* ---------------------------------------------------------------------
\* Claims about the hand-over of the pipes to the loop
\* ---------------------------------------------------------------------

\* The call of _docker_run in executor.run is over.
HandOver == xpc \in {"over", "raised"}

\* C32 as stated: every input and output pipe adapter executor.run built
\* is handed to the multiplexing loop of the run and served by it, so that
\* by the end of the run the loop has moved the bytes of each.
C32_PipesDrivenByLoop ==
    HandOver => \A e \in xipipes \cup xopipes :
                    \E c \in xdriven : e[1] \in {c.input, c.output}

\* C34 as stated: once _run_select_loop has wired the standard streams,
\* the container's stdout and its stderr are each read by exactly one
\* read connector, whose reader is on the socket of that same stream.
C34_EachStreamReadFromOwnSocket ==
    (xpc \in {"over", "raised"} /\ Len(xreaders) > 0) =>
        \A n \in {"stdout", "stderr"} :
            /\ Cardinality({k \in 1..Len(xreaders) :
                              xreaders[k].output = <<"host", n>>}) = 1
            /\ \A k \in 1..Len(xreaders) :
                 xreaders[k].output = <<"host", n>> =>
                     xreaders[k].input = Socket(n)
            /\ Cardinality({k \in 1..Len(xreaders) :
                              xreaders[k].input = Socket(n)}) = 1

\* ---------------------------------------------------------------------
\* Claims about the end of a container run
\* ---------------------------------------------------------------------

\* C36: in _docker_run, with remove_container set the finally clause
\* comes to its decision (the reload of the container) on every way out
\* of _run_select_loop, by return or by exception, and remove() is never
\* called on a container whose reloaded status is 'running'; with
\* remove_container not set remove() is never called.
C36_RemovalDecidedOnEveryExit ==
    /\ fremoved <= 1
    /\ fremoved = 1 => (fremove /\ freload = "ok" /\ fstatus # "running")
    /\ fpc = "over" => (fremove <=> freload # "no")
    /\ (fpc = "over" /\ freload = "ok" /\ fstatus # "running") => fremoved = 1

\* C36 witness: the loop raised, the container had exited, and the
\* container was reloaded and removed on the way out.
C36_Witness ==
    /\ fpc = "over"
    /\ fremove
    /\ ferr = "loop"
    /\ fstatus = "exited"
    /\ fremoved = 1

\* C39 as stated: the descriptor of each attached socket is closed at most
\* once in a run; one that its connector has closed is not closed again
\* when _run_select_loop closes the sockets on its way out.
C39_SocketClosedAtMostOnce ==
    \A n \in {"stdout", "stderr"} : fcloses[n] <= 1

\* ---------------------------------------------------------------------
\* Claims about a stream connector
\* ---------------------------------------------------------------------

\* C15 as stated: whenever a connector closes, close() is called on its
\* output side first and on its input side next.
C15_CloseOutputThenInput ==
    \A k \in 1..Len(clog) :
        /\ clog[k] = <<"close", "output">> =>
               (k < Len(clog) /\ clog[k + 1] = <<"close", "input">>)
        /\ clog[k] = <<"close", "input">> =>
               (k > 1 /\ clog[k - 1] = <<"close", "output">>)

\* C16 as stated: when open() has returned, both ends of the connector
\* are open, open() having been called on the input side and then on the
\* output side.
C16_OpenBothInputFirst ==
    clast = "open" =>
        /\ ends.input = "open" /\ ends.output = "open"
        /\ Len(clog) >= 2
        /\ clog[Len(clog) - 1] = <<"open", "input">>
        /\ clog[Len(clog)] = <<"open", "output">>

\* C17: the bytes the output side of a connector has received are bytes
\* read from its input side, in the order in which they were read: nothing
\* read later stands before something read earlier.
C17_ChunksInReadOrder ==
    /\ \A k \in 1..Len(cdelivered) : cdelivered[k] \in 1..cpos
    /\ \A k \in 1..(Len(cdelivered) - 1) : cdelivered[k] < cdelivered[k + 1]

\* C17 witness: the whole stream went through in at least two chunks and
\* the connector then closed itself at end of stream.
C17_Witness ==
    /\ Len(cstream) = MaxStream
    /\ cpos = Len(cstream)
    /\ cdelivered = cstream
    /\ Cardinality({k \in 1..Len(clog) : clog[k] = <<"write", "output">>}) >= 2
    /\ ConnClosed

\* fileno() of a connector that returns what its active end reports.
FilenoOfActiveEnd(c, st) ==
    IF c.kind = "write"
    THEN [raise |-> FALSE, value |-> EndFileno(c.output, "output", st.output)]
    ELSE [raise |-> FALSE, value |-> EndFileno(c.input, "input", st.input)]

\* C25 as stated: fileno() of a read connector returns the descriptor of
\* its input reader and fileno() of a write connector the descriptor of
\* its output writer.
C25_FilenoIsActiveDescriptor ==
    cfileno.value # <<"notCalled">> =>
        /\ ~cfileno.raise
        /\ cfileno = FilenoOfActiveEnd(conn, ends)

\* C29 as stated: the bytes at the output are always a prefix of the
\* input's bytes, and all of them once the connector has closed itself at
\* the end of the stream: a short write loses nothing.
C29_EveryByteReadIsDelivered ==
    /\ Len(cdelivered) <= Len(cstream)
    /\ cdelivered = SubSeq(cstream, 1, Len(cdelivered))
    /\ (ConnClosed /\ clast = "step") => cdelivered = cstream

\* C30 as stated: read, write and close on a named-pipe end act on the
\* descriptor of its own FIFO, never on another descriptor of the process.
C30_PipeEndUsesOwnDescriptor ==
    \A t \in ctouched :
        conn[t[2]] = "pipe" => t[3] = EndFd(t[2])

\* ---------------------------------------------------------------------
\* Claims about concurrent runs
\* ---------------------------------------------------------------------

\* C18 as stated: every path a binding of a run yields lies in that run's
\* own default temporary volume, under every interleaving of two runs.
C18_PathsInOwnVolume ==
    \A r \in Runs : syield[r] \subseteq {r}

\* ---------------------------------------------------------------------
\* Claims about the push adapters
\* ---------------------------------------------------------------------

\* The lines of a byte sequence that end in a newline, in order.
CompleteLines(seq) ==
    LET l == SplitLines(seq) IN SubSeq(l, 1, Len(l) - 1)

C40_LastLineReportedAtClose ==
    jclosed =>
        LET objs == SelectSeq(SplitLines(jstream),
                              LAMBDA l : JsonLoads(l).kind = "object")
        IN  jcalls = [k \in 1..Len(objs) |-> ProgressOf(JsonLoads(objs[k]))]

\* The chunks of a sequence joined in order.
RECURSIVE ConcatChunks(_)
ConcatChunks(cs) ==
    IF cs = <<>> THEN <<>> ELSE Head(cs) \o ConcatChunks(Tail(cs))

\* C20: the value under the key is the value at construction (the empty
\* string if the key was absent) followed by the chunks written, in write
\* order; every other key is as it was passed in.
C20_AccumulatesInOrder ==
    /\ adict[AccKey] =
         (IF adict0[AccKey] = AbsentValue THEN <<>> ELSE adict0[AccKey])
         \o ConcatChunks(achunks)
    /\ adict[OtherKey] = adict0[OtherKey]

\* C20 witness: three chunks, an empty one among them, were written to a
\* mapping that already had a value under the key.
C20_Witness ==
    /\ adict0[AccKey] = <<65>>
    /\ achunks = <<<<66, 67>>, <<>>, <<65>>>>
    /\ adict[AccKey] = <<65, 66, 67, 65>>

\* ---------------------------------------------------------------------
\* Claims about the demultiplexer
\* ---------------------------------------------------------------------
\* Claims about the expansion of the container arguments
\* ---------------------------------------------------------------------

HasFalsyFlag(arg) == \E k \in 1..Len(arg) : arg[k] = "flagOff"

HasBadToken(arg) == \E k \in 1..Len(arg) : arg[k] \in BadTokens

ExpansionDone == epc \in {"pipes", "run", "ran", "done", "collectFailed"}

\* C21: once _expand_args has returned, the final argument list holds no
\* argument that had a $flag token with a falsy or absent value: it is
\* the list of the expansions of the other arguments, in order.
C21_FalsyFlagDropsArgument ==
    ExpansionDone =>
        LET kept == SelectSeq(eargs, LAMBDA a : ~HasFalsyFlag(a))
        IN  newArgs = [k \in 1..Len(kept) |-> ExpandArg(kept[k]).parts]

\* C22: while an argument holds a $input or $output token that cannot be
\* expanded, run() gets past _expand_args in no state: no pipe is set up
\* and no container is started; and the list handed to the container run
\* holds no $input or $output token.
C22_UnresolvedTokenFailsBeforeRun ==
    /\ (\E k \in 1..Len(eargs) : HasBadToken(eargs[k]))
           => ~ExpansionDone /\ ~started /\ fifos = {}
    /\ started =>
           \A k \in 1..Len(newArgs) : \A n \in 1..Len(newArgs[k]) :
               newArgs[k][n] \notin {"inOk", "inTemp", "inBad", "outOk", "outBad"}

\* An unexpandable token in the second argument, after a good first one,
\* has made run() fail in _expand_args.
C22_Witness ==
    /\ epc = "prepFailed"
    /\ Len(eargs) = 2
    /\ ~HasBadToken(eargs[1])
    /\ HasBadToken(eargs[2])
    /\ ~started

\* ---------------------------------------------------------------------
\* Claims about the outputs after the container run
\* ---------------------------------------------------------------------

CollectOver == epc \in {"done", "collectFailed"}

PlainFileOutputs == {i \in DOMAIN tout : tout[i].filepath /\ ~tout[i].stream}

\* script_data is bound only for non-streaming filepath outputs, only to
\* the output's own resolved host path, and only when that path exists.
BoundOnlyToExistingPaths ==
    \A b \in scriptData :
        /\ b[1] \in PlainFileOutputs
        /\ ~ResolvePath(tout[b[1]], b[1]).raise
        /\ b[2] = ResolvePath(tout[b[1]], b[1]).path
        /\ b[2] \in onDisk

IsBound(i) ==
    /\ ~ResolvePath(tout[i], i).raise
    /\ ResolvePath(tout[i], i).path \in onDisk
    /\ <<i, ResolvePath(tout[i], i).path>> \in scriptData

\* C23 as stated: after the container run every non-streaming filepath
\* output either has script_data set to its existing host path, or run
\* raised 'Output filepath ... does not exist'; script_data is bound to
\* no missing path and to no streaming output.
C23_BoundOrDoesNotExistError ==
    /\ BoundOnlyToExistingPaths
    /\ CollectOver =>
          \A i \in PlainFileOutputs :
              IsBound(i) \/ (epc = "collectFailed" /\ collectErr = "missing")

\* C23 amended: after the container run every non-streaming filepath
\* output either has script_data set to its existing host path, or run
\* raised; run raises 'does not exist' only for a path that is missing;
\* script_data is bound to no missing path and to no streaming output.
C23_BoundOrRunRaises ==
    /\ BoundOnlyToExistingPaths
    /\ CollectOver =>
          /\ \A i \in PlainFileOutputs : IsBound(i) \/ epc = "collectFailed"
          /\ collectErr = "missing" =>
                \E i \in PlainFileOutputs :
                    /\ ~ResolvePath(tout[i], i).raise
                    /\ ResolvePath(tout[i], i).path \notin onDisk

\* Of two non-streaming outputs the run has bound the one it came to
\* first and raised for the missing file of the other.
C23_Witness ==
    /\ epc = "collectFailed"
    /\ collectErr = "missing"
    /\ Len(tout) = 2
    /\ \E i \in PlainFileOutputs : IsBound(i)
    /\ \E i \in PlainFileOutputs : ~IsBound(i)

\* ---------------------------------------------------------------------
\* Claims about the host's standard streams
\* ---------------------------------------------------------------------

\* C24: closing a WritePipeAdapter leaves the stream it wraps open: at
\* every point of the run, and after the cleanup phase has closed the
\* connectors, sys.stdout and sys.stderr are open and no write to them
\* has failed.
C24_HostStreamsStayOpen ==
    /\ \A s \in DOMAIN hstream : hstream[s].open
    /\ ~hfailed

\* The cleanup phase has closed both connectors, close() has reached
\* both adapters, and the host process has written to both streams since.
C24_Witness ==
    /\ hpc = "closed"
    /\ hclosed = {"stdout", "stderr"}
    /\ \A s \in {"stdout", "stderr"} :
          /\ hstream[s].written # <<>>
          /\ hstream[s].written[Len(hstream[s].written)] = "host"

\* ---------------------------------------------------------------------
\* Claims about the start of the container
\* ---------------------------------------------------------------------

\* C27 as stated: when the container is started every FIFO of the run
\* exists on disk and every read-side stream connector is open.
C27_PipesReadyBeforeStart ==
    kstarted =>
        \A k \in 1..Len(kstreams) :
            /\ kstreams[k].side # "fdread" => kstreams[k].fifo
            /\ IsReadStream(kstreams[k]) => kstreams[k].fd

\* C37: NamedPipe.open does not open the FIFO again once the pipe holds a
\* descriptor, however often the loop calls it; an open that fails with
\* ENXIO returns without error and leaves the pipe without a descriptor,
\* so that the open() of a later pass tries again; any other error of the
\* open propagates.
C37_OpenIdempotentAndEnxioTolerant ==
    [][\A k \in 1..Len(kstreams) :
         LET opened(j) == kcalls'[j] # kcalls[j]
             ended == kpc' \in {"failed", "loopFailed"}
         IN  /\ kstreams[k].fd => (~opened(k) /\ kstreams'[k].fd)
             /\ (opened(k) /\ klast'[k] = "enxio") =>
                    /\ ~kstreams'[k].fd
                    /\ ended => \E j \in 1..Len(kstreams) :
                                   j # k /\ opened(j) /\ klast'[j] = "error"
             /\ (opened(k) /\ klast'[k] = "error") =>
                    /\ ~kstreams'[k].fd
                    /\ ended
                    /\ \A j \in (k + 1)..Len(kstreams) : ~opened(j)
             /\ (opened(k) /\ klast'[k] = "ok") => kstreams'[k].fd
             /\ (kstreams[k].side = "write" /\ ~kstreams[k].fd
                   /\ kpasses' # kpasses /\ ~opened(k)) =>
                    kpc' = "loopFailed"]_vars

\* C37 witness: a writer's pipe met ENXIO in one pass, was opened by the
\* open() of the next pass, and another pipe that held its descriptor was
\* left alone by both passes.
C37_Witness ==
    /\ kpc = "started"
    /\ kpasses = 2
    /\ \E k \in 1..Len(kstreams) :
         /\ kstreams[k].side = "write"
         /\ kcalls[k] = 2 /\ klast[k] = "ok" /\ kstreams[k].fd
    /\ \E j \in 1..Len(kstreams) :
         /\ kstreams[j].side = "write"
         /\ kcalls[j] = 1 /\ klast[j] = "held" /\ kstreams[j].fd

\* ---------------------------------------------------------------------

\* The payload bytes that lie within the first k bytes of the encoding of fs.
RECURSIVE PayloadIn(_, _)
PayloadIn(fs, k) ==
    IF fs = <<>> \/ k <= 8 THEN <<>>
    ELSE LET p == Head(fs).payload
         IN  IF k - 8 <= Len(p) THEN SubSeq(p, 1, k - 8)
             ELSE p \o PayloadIn(Tail(fs), k - 8 - Len(p))

RECURSIVE ConcatPayloads(_)
ConcatPayloads(fs) ==
    IF fs = <<>> THEN <<>> ELSE Head(fs).payload \o ConcatPayloads(Tail(fs))

\* The offset in the encoded stream at which frame i ends (0 for i = 0).
FrameEnd(i) == Len(EncodeFrames(SubSeq(frames, 1, i)))

\* C1: whatever chunks the encoded frames were cut into, the downstream
\* adapter has received exactly the payload bytes contained in the bytes
\* fed so far, in order, and no header byte; once the whole stream is fed
\* that is the concatenation of all payloads.
C1_DecodeFidelity ==
    /\ captured = PayloadIn(frames, fed)
    /\ fed = Len(EncodeFrames(frames)) => captured = ConcatPayloads(frames)

\* C1 witness: two frames with payloads, fully fed, where the latest chunk
\* began in the middle of the second frame's header.
C1_Witness ==
    /\ Len(frames) >= 2
    /\ frames[1].payload # <<>> /\ frames[2].payload # <<>>
    /\ fed = Len(EncodeFrames(frames))
    /\ lastFed = FrameEnd(1) + 3
    /\ captured = frames[1].payload \o frames[2].payload

\* C7: a write call that starts at a frame boundary and holds two or more
\* complete frames forwards all their payloads in frame order and leaves
\* the decoder awaiting a header, with no header or payload bytes held.
C7_MultiFrameCall ==
    \A i \in 0..Len(frames), j \in 0..Len(frames) :
        (j >= i + 2 /\ lastFed = FrameEnd(i) /\ fed = FrameEnd(j)) =>
            /\ captured = lastCaptured \o ConcatPayloads(SubSeq(frames, i + 1, j))
            /\ dm.hbr = 0 /\ dm.pbr = 0 /\ dm.header = <<>>
            /\ ~Truthy(dm.psize)

\* C7 witness: a stderr frame and a stdout frame, both with payload,
\* delivered in one call.
C7_Witness ==
    /\ Len(frames) >= 2
    /\ frames[1].type = 2 /\ frames[2].type = 1
    /\ frames[1].payload # <<>> /\ frames[2].payload # <<>>
    /\ lastFed = 0 /\ fed = FrameEnd(2)
    /\ captured = frames[1].payload \o frames[2].payload

\* C38: between any two write calls the header bytes counted are
\* between 0 and 8 and as many as the header buffer holds; with 8 held
\* the payload size is the big-endian value of header bytes 4..7, is
\* positive, and fewer payload bytes than that have been forwarded; with
\* fewer than 8 held the count of payload bytes forwarded is 0.
C38_DecoderStateBetweenWrites ==
    /\ dm.hbr \in 0..8
    /\ dm.hbr = Len(dm.header)
    /\ dm.hbr = 8 =>
         /\ dm.psize = dm.header[5] * 16777216 + dm.header[6] * 65536
                         + dm.header[7] * 256 + dm.header[8]
         /\ dm.psize > 0
         /\ dm.pbr < dm.psize
    /\ dm.hbr < 8 => dm.pbr = 0

\* C38 witness: a write call ended in the middle of the payload of the
\* second frame, and an earlier one in the middle of a header.
C38_Witness ==
    /\ Len(frames) = 2
    /\ fed >= 17
    /\ dm.hbr = 8 /\ dm.psize = 2 /\ dm.pbr = 1
    /\ lastFed \in 9..15

\* The offset in the encoded stream at which the payload of frame i begins.
PayloadStart(i) == FrameEnd(i - 1) + 8

\* The frames with a zero-length payload that the bytes fed so far hold
\* in full.
EmptyFramesFed ==
    {i \in 1..Len(frames) : frames[i].payload = <<>> /\ fed >= FrameEnd(i)}

\* C28: a frame that announces a zero-length payload causes no downstream
\* write; when the bytes fed end with such a frame the decoder awaits a
\* header; and the payloads of the frames after it arrive intact: the
\* adapter holds exactly the payload bytes fed so far.
C28_EmptyFrameIsSkipped ==
    EmptyFramesFed # {} =>
        /\ \A i \in EmptyFramesFed : \A k \in 1..Len(lastWrites) :
               lastFed + lastWrites[k][1] # PayloadStart(i)
        /\ \A i \in EmptyFramesFed :
               fed = FrameEnd(i) =>
                   /\ dm.hbr = 0 /\ dm.pbr = 0 /\ dm.header = <<>>
                   /\ ~Truthy(dm.psize)
        /\ captured = PayloadIn(frames, fed)

\* C28 witness: an empty frame and then a frame with a payload, the
\* header of the empty frame completed by one call together with the
\* whole of the frame behind it.
C28_Witness ==
    /\ Len(frames) = 2
    /\ frames[1].payload = <<>> /\ frames[2].payload = <<66, 67>>
    /\ lastFed = 5
    /\ fed = FrameEnd(2)
    /\ captured = <<66, 67>>
    /\ lastWrites = <<<<11, 2>>>>

=============================================================================
